---- MODULE Spec2Model ----
(***************************************************************************)
(* A model of the NES emulator core: the 6502 interpreter of src/cpu.rs.   *)
(* The CPU is a state machine whose steps are the host's calls of tick()   *)
(* and of flag_nmi() / flag_irq() / flag_reset().  Every handler of        *)
(* cpu.rs is an operator from a CPU record to the CPU record the handler   *)
(* leaves; the field ret carries the handler's return value (the number of *)
(* bytes execute_opcode adds to PC).                                       *)
(***************************************************************************)
EXTENDS Integers, Sequences, FiniteSets, TLC

VARIABLES
    a, x, y, pc, s, p,          \* registers of Cpu
    nmi, irq, reset,            \* interrupt latches
    remaining_pause,            \* ticks still owed to the last instruction
    instruction_counter,        \* instructions fetched so far
    ram,                        \* internal 2 KiB RAM: the cells written so far
    rom,                        \* PRG-ROM image (never written)
    oamdma,                     \* pages handed to the bus by writes to 0x4014
    panicked,                   \* a panic!/unreachable!/unimplemented! was hit
    last,                       \* which step was taken last
    prev,                       \* the CPU as it was before that step
    flags_raised,               \* flag_*() calls made by the host so far
    nrom,                       \* the cartridge's mapper (Nrom)
    cartridge,                  \* the cartridge header the mapper was made from
    apu,                        \* the audio processing unit (Apu)
    apu_ticks,                  \* Apu::tick calls the host made so far
    nmi_due                     \* ticks since flag_nmi() counted down from the
                                \* pause it found plus one (0: none counted)

vars == <<a, x, y, pc, s, p, nmi, irq, reset, remaining_pause,
          instruction_counter, ram, rom, oamdma, panicked, last, prev,
          flags_raised, nrom, cartridge, apu, apu_ticks, nmi_due>>

----------------------------------------------------------------------------
(* Bounds of the model.                                                     *)

\* instructions the host lets the CPU fetch in one run
MaxInstr == 3
\* flag_nmi / flag_irq / flag_reset calls the host makes in one run
MaxFlags == 3
\* cells written through the mapper in one run
MaxWrites == 2
\* Apu::tick calls the host makes in one run: two video frames' worth of
\* CPU clocks
MaxTicks == 59562
\* Apu::tick calls of a run in which the CPU switches the sequencer's mode:
\* a five-step pass and the first step of the next
PassTicks == 44740
\* Apu::tick calls of a run in which the CPU configures the channels
EarlyTicks == 44

----------------------------------------------------------------------------
(* Bytes, words and bit operations on them.                                 *)

Byte == 0..255

RECURSIVE BitAnd(_, _)
BitAnd(u, v) ==
    IF u = 0 \/ v = 0 THEN 0
    ELSE (u % 2) * (v % 2) + 2 * BitAnd(u \div 2, v \div 2)

BitOr(u, v) == u + v - BitAnd(u, v)

BitXor(u, v) == u + v - 2 * BitAnd(u, v)

\* u8 / u16 wrapping arithmetic
Wrap8(n) == n % 256

Wrap16(n) == n % 65536

\* `v as i8`: the byte read as a signed 8-bit value
AsI8(v) == IF v >= 128 THEN v - 256 ELSE v

\* `(v as i8) as u16`: sign extension to 16 bits
SignExtend16(v) == IF v >= 128 THEN v + \hFF00 ELSE v

join_bytes(high, low) == high * 256 + low

----------------------------------------------------------------------------
(* Status: the flag masks of P.                                             *)

CARRY == \h01
ZERO == \h02
INTERRUPT_DISABLE == \h04
DECIMAL == \h08
BREAK == \h20
OVERFLOW == \h40
NEGATIVE == \h80

\* the bits bitflags knows: from_bits_truncate drops every other bit
ALL_FLAGS == \hEF

from_bits_truncate(v) == BitAnd(v, ALL_FLAGS)

SIGN_BIT == \h80

NMI_VECTOR == \hFFFA
RESET_VECTOR == \hFFFC
IRQ_VECTOR == \hFFFE

PHP_MASK == \h30

\* the stall a write to 0x4014 adds
DMA_PAUSE == 513

\* Status::contains for a one-bit mask
contains(bits, mask) == (bits \div mask) % 2 = 1

----------------------------------------------------------------------------
(* The opcode table.                                                        *)

Op(operation, mode, cycles, cross) ==
    [operation |-> operation, mode |-> mode, cycles |-> cycles, cross |-> cross]

TABLE ==
  <<
     Op("BRK", "Implicit", 7, FALSE), Op("ORA", "IndirectX", 6, FALSE),
     Op("KIL", "Implicit", 0, FALSE), Op("SLO", "IndirectX", 8, FALSE),
     Op("NOP", "ZeroPage", 3, FALSE), Op("ORA", "ZeroPage", 3, FALSE),
     Op("ASL", "ZeroPage", 5, FALSE), Op("SLO", "ZeroPage", 5, FALSE),
     Op("PHP", "Implicit", 3, FALSE), Op("ORA", "Immediate", 2, FALSE),
     Op("ASL", "Accumulator", 2, FALSE), Op("ANC", "Immediate", 2, FALSE),
     Op("NOP", "Absolute", 4, FALSE), Op("ORA", "Absolute", 4, FALSE),
     Op("ASL", "Absolute", 6, FALSE), Op("SLO", "Absolute", 6, FALSE),
     Op("BPL", "Relative", 2, TRUE), Op("ORA", "IndirectY", 5, TRUE),
     Op("KIL", "Implicit", 0, FALSE), Op("SLO", "IndirectY", 8, FALSE),
     Op("NOP", "ZeroPageX", 4, FALSE), Op("ORA", "ZeroPageX", 4, FALSE),
     Op("ASL", "ZeroPageX", 6, FALSE), Op("SLO", "ZeroPageX", 6, FALSE),
     Op("CLC", "Implicit", 2, FALSE), Op("ORA", "AbsoluteY", 4, TRUE),
     Op("NOP", "Implicit", 2, FALSE), Op("SLO", "AbsoluteY", 7, FALSE),
     Op("NOP", "AbsoluteX", 4, TRUE), Op("ORA", "AbsoluteX", 4, TRUE),
     Op("ASL", "AbsoluteX", 7, FALSE), Op("SLO", "AbsoluteX", 7, FALSE),
     Op("JSR", "Absolute", 6, FALSE), Op("AND", "IndirectX", 6, FALSE),
     Op("KIL", "Implicit", 0, FALSE), Op("RLA", "IndirectX", 8, FALSE),
     Op("BIT", "ZeroPage", 3, FALSE), Op("AND", "ZeroPage", 3, FALSE),
     Op("ROL", "ZeroPage", 5, FALSE), Op("RLA", "ZeroPage", 5, FALSE),
     Op("PLP", "Implicit", 4, FALSE), Op("AND", "Immediate", 2, FALSE),
     Op("ROL", "Accumulator", 2, FALSE), Op("ANC", "Immediate", 2, FALSE),
     Op("BIT", "Absolute", 4, FALSE), Op("AND", "Absolute", 4, FALSE),
     Op("ROL", "Absolute", 6, FALSE), Op("RLA", "Absolute", 6, FALSE),
     Op("BMI", "Relative", 2, TRUE), Op("AND", "IndirectY", 5, TRUE),
     Op("KIL", "Implicit", 0, FALSE), Op("RLA", "IndirectY", 8, FALSE),
     Op("NOP", "ZeroPageX", 4, FALSE), Op("AND", "ZeroPageX", 4, FALSE),
     Op("ROL", "ZeroPageX", 6, FALSE), Op("RLA", "ZeroPageX", 6, FALSE),
     Op("SEC", "Implicit", 2, FALSE), Op("AND", "AbsoluteY", 4, TRUE),
     Op("NOP", "Implicit", 2, FALSE), Op("RLA", "AbsoluteY", 7, FALSE),
     Op("NOP", "AbsoluteX", 4, TRUE), Op("AND", "AbsoluteX", 4, TRUE),
     Op("ROL", "AbsoluteX", 7, FALSE), Op("RLA", "AbsoluteX", 7, FALSE),
     Op("RTI", "Implicit", 6, FALSE), Op("EOR", "IndirectX", 6, FALSE),
     Op("KIL", "Implicit", 0, FALSE), Op("SRE", "IndirectX", 8, FALSE),
     Op("NOP", "ZeroPage", 3, FALSE), Op("EOR", "ZeroPage", 3, FALSE),
     Op("LSR", "ZeroPage", 5, FALSE), Op("SRE", "ZeroPage", 5, FALSE),
     Op("PHA", "Implicit", 3, FALSE), Op("EOR", "Immediate", 2, FALSE),
     Op("LSR", "Accumulator", 2, FALSE), Op("ALR", "Immediate", 2, FALSE),
     Op("JMP", "Absolute", 3, FALSE), Op("EOR", "Absolute", 4, FALSE),
     Op("LSR", "Absolute", 6, FALSE), Op("SRE", "Absolute", 6, FALSE),
     Op("BVC", "Relative", 2, TRUE), Op("EOR", "IndirectY", 5, TRUE),
     Op("KIL", "Implicit", 0, FALSE), Op("SRE", "IndirectY", 8, FALSE),
     Op("NOP", "ZeroPageX", 4, FALSE), Op("EOR", "ZeroPageX", 4, FALSE),
     Op("LSR", "ZeroPageX", 6, FALSE), Op("SRE", "ZeroPageX", 6, FALSE),
     Op("CLI", "Implicit", 2, FALSE), Op("EOR", "AbsoluteY", 4, TRUE),
     Op("NOP", "Implicit", 2, FALSE), Op("SRE", "AbsoluteY", 7, FALSE),
     Op("NOP", "AbsoluteX", 4, TRUE), Op("EOR", "AbsoluteX", 4, TRUE),
     Op("LSR", "AbsoluteX", 7, FALSE), Op("SRE", "AbsoluteX", 7, FALSE),
     Op("RTS", "Implicit", 6, FALSE), Op("ADC", "IndirectX", 6, FALSE),
     Op("KIL", "Implicit", 0, FALSE), Op("RRA", "IndirectX", 8, FALSE),
     Op("NOP", "ZeroPage", 3, FALSE), Op("ADC", "ZeroPage", 3, FALSE),
     Op("ROR", "ZeroPage", 5, FALSE), Op("RRA", "ZeroPage", 5, FALSE),
     Op("PLA", "Implicit", 4, FALSE), Op("ADC", "Immediate", 2, FALSE),
     Op("ROR", "Accumulator", 2, FALSE), Op("ARR", "Immediate", 2, FALSE),
     Op("JMP", "Indirect", 5, FALSE), Op("ADC", "Absolute", 4, FALSE),
     Op("ROR", "Absolute", 6, FALSE), Op("RRA", "Absolute", 6, FALSE),
     Op("BVS", "Relative", 2, TRUE), Op("ADC", "IndirectY", 5, TRUE),
     Op("KIL", "Implicit", 0, FALSE), Op("RRA", "IndirectY", 8, FALSE),
     Op("NOP", "ZeroPageX", 4, FALSE), Op("ADC", "ZeroPageX", 4, FALSE),
     Op("ROR", "ZeroPageX", 6, FALSE), Op("RRA", "ZeroPageX", 6, FALSE),
     Op("SEI", "Implicit", 2, FALSE), Op("ADC", "AbsoluteY", 4, TRUE),
     Op("NOP", "Implicit", 2, FALSE), Op("RRA", "AbsoluteY", 7, FALSE),
     Op("NOP", "AbsoluteX", 4, TRUE), Op("ADC", "AbsoluteX", 4, TRUE),
     Op("ROR", "AbsoluteX", 7, FALSE), Op("RRA", "AbsoluteX", 7, FALSE),
     Op("NOP", "Immediate", 2, FALSE), Op("STA", "IndirectX", 6, FALSE),
     Op("NOP", "Immediate", 2, FALSE), Op("SAX", "IndirectX", 6, FALSE),
     Op("STY", "ZeroPage", 3, FALSE), Op("STA", "ZeroPage", 3, FALSE),
     Op("STX", "ZeroPage", 3, FALSE), Op("SAX", "ZeroPage", 3, FALSE),
     Op("DEY", "Implicit", 2, FALSE), Op("NOP", "Immediate", 2, FALSE),
     Op("TXA", "Implicit", 2, FALSE), Op("XAA", "Immediate", 2, FALSE),
     Op("STY", "Absolute", 4, FALSE), Op("STA", "Absolute", 4, FALSE),
     Op("STX", "Absolute", 4, FALSE), Op("SAX", "Absolute", 4, FALSE),
     Op("BCC", "Relative", 2, TRUE), Op("STA", "IndirectY", 6, FALSE),
     Op("KIL", "Implicit", 0, FALSE), Op("AHX", "IndirectY", 6, FALSE),
     Op("STY", "ZeroPageX", 4, FALSE), Op("STA", "ZeroPageX", 4, FALSE),
     Op("STX", "ZeroPageY", 4, FALSE), Op("SAX", "ZeroPageY", 4, FALSE),
     Op("TYA", "Implicit", 2, FALSE), Op("STA", "AbsoluteY", 5, FALSE),
     Op("TXS", "Implicit", 2, FALSE), Op("TAS", "AbsoluteY", 5, FALSE),
     Op("SHY", "AbsoluteX", 5, FALSE), Op("STA", "AbsoluteX", 5, FALSE),
     Op("SHX", "AbsoluteY", 5, FALSE), Op("AHX", "AbsoluteY", 5, FALSE),
     Op("LDY", "Immediate", 2, FALSE), Op("LDA", "IndirectX", 6, FALSE),
     Op("LDX", "Immediate", 2, FALSE), Op("LAX", "IndirectX", 6, FALSE),
     Op("LDY", "ZeroPage", 3, FALSE), Op("LDA", "ZeroPage", 3, FALSE),
     Op("LDX", "ZeroPage", 3, FALSE), Op("LAX", "ZeroPage", 3, FALSE),
     Op("TAY", "Implicit", 2, FALSE), Op("LDA", "Immediate", 2, FALSE),
     Op("TAX", "Implicit", 2, FALSE), Op("LAX", "Immediate", 2, FALSE),
     Op("LDY", "Absolute", 4, FALSE), Op("LDA", "Absolute", 4, FALSE),
     Op("LDX", "Absolute", 4, FALSE), Op("LAX", "Absolute", 4, FALSE),
     Op("BCS", "Relative", 2, TRUE), Op("LDA", "IndirectY", 5, TRUE),
     Op("KIL", "Implicit", 0, FALSE), Op("LAX", "IndirectY", 5, TRUE),
     Op("LDY", "ZeroPageX", 4, FALSE), Op("LDA", "ZeroPageX", 4, FALSE),
     Op("LDX", "ZeroPageY", 4, FALSE), Op("LAX", "ZeroPageY", 4, FALSE),
     Op("CLV", "Implicit", 2, FALSE), Op("LDA", "AbsoluteY", 4, TRUE),
     Op("TSX", "Implicit", 2, FALSE), Op("LAS", "AbsoluteY", 4, TRUE),
     Op("LDY", "AbsoluteX", 4, TRUE), Op("LDA", "AbsoluteX", 4, TRUE),
     Op("LDX", "AbsoluteY", 4, TRUE), Op("LAX", "AbsoluteY", 4, TRUE),
     Op("CPY", "Immediate", 2, FALSE), Op("CMP", "IndirectX", 6, FALSE),
     Op("NOP", "Immediate", 2, FALSE), Op("DCP", "IndirectX", 8, FALSE),
     Op("CPY", "ZeroPage", 3, FALSE), Op("CMP", "ZeroPage", 3, FALSE),
     Op("DEC", "ZeroPage", 5, FALSE), Op("DCP", "ZeroPage", 5, FALSE),
     Op("INY", "Implicit", 2, FALSE), Op("CMP", "Immediate", 2, FALSE),
     Op("DEX", "Implicit", 2, FALSE), Op("AXS", "Immediate", 2, FALSE),
     Op("CPY", "Absolute", 4, FALSE), Op("CMP", "Absolute", 4, FALSE),
     Op("DEC", "Absolute", 6, FALSE), Op("DCP", "Absolute", 6, FALSE),
     Op("BNE", "Relative", 2, TRUE), Op("CMP", "IndirectY", 5, TRUE),
     Op("KIL", "Implicit", 0, FALSE), Op("DCP", "IndirectY", 8, FALSE),
     Op("NOP", "ZeroPageX", 4, FALSE), Op("CMP", "ZeroPageX", 4, FALSE),
     Op("DEC", "ZeroPageX", 6, FALSE), Op("DCP", "ZeroPageX", 6, FALSE),
     Op("CLD", "Implicit", 2, FALSE), Op("CMP", "AbsoluteY", 4, TRUE),
     Op("NOP", "Implicit", 2, FALSE), Op("DCP", "AbsoluteY", 7, FALSE),
     Op("NOP", "AbsoluteX", 4, TRUE), Op("CMP", "AbsoluteX", 4, TRUE),
     Op("DEC", "AbsoluteX", 7, FALSE), Op("DCP", "AbsoluteX", 7, FALSE),
     Op("CPX", "Immediate", 2, FALSE), Op("SBC", "IndirectX", 6, FALSE),
     Op("NOP", "Immediate", 2, FALSE), Op("ISC", "IndirectX", 8, FALSE),
     Op("CPX", "ZeroPage", 3, FALSE), Op("SBC", "ZeroPage", 3, FALSE),
     Op("INC", "ZeroPage", 5, FALSE), Op("ISC", "ZeroPage", 5, FALSE),
     Op("INX", "Implicit", 2, FALSE), Op("SBC", "Immediate", 2, FALSE),
     Op("NOP", "Implicit", 2, FALSE), Op("SBC", "Immediate", 2, FALSE),
     Op("CPX", "Absolute", 4, FALSE), Op("SBC", "Absolute", 4, FALSE),
     Op("INC", "Absolute", 6, FALSE), Op("ISC", "Absolute", 6, FALSE),
     Op("BEQ", "Relative", 2, TRUE), Op("SBC", "IndirectY", 5, TRUE),
     Op("KIL", "Implicit", 0, FALSE), Op("ISC", "IndirectY", 8, FALSE),
     Op("NOP", "ZeroPageX", 4, FALSE), Op("SBC", "ZeroPageX", 4, FALSE),
     Op("INC", "ZeroPageX", 6, FALSE), Op("ISC", "ZeroPageX", 6, FALSE),
     Op("SED", "Implicit", 2, FALSE), Op("SBC", "AbsoluteY", 4, TRUE),
     Op("NOP", "Implicit", 2, FALSE), Op("ISC", "AbsoluteY", 7, FALSE),
     Op("NOP", "AbsoluteX", 4, TRUE), Op("SBC", "AbsoluteX", 4, TRUE),
     Op("INC", "AbsoluteX", 7, FALSE), Op("ISC", "AbsoluteX", 7, FALSE)
  >>

resolve(code) == TABLE[code + 1]

byte_count(mode) ==
    CASE mode \in {"Accumulator", "Implicit"} -> 1
      [] mode \in {"ZeroPage", "ZeroPageX", "ZeroPageY", "Relative"} -> 2
      [] mode \in {"Immediate", "Indirect", "IndirectX", "IndirectY"} -> 2
      [] mode \in {"Absolute", "AbsoluteX", "AbsoluteY"} -> 3

\* the operations execute_opcode has an arm for
Implemented ==
    {"ADC", "AND", "ASL", "BIT", "BRK", "EOR", "DEC", "DEX", "DEY", "INC",
     "INX", "INY", "JMP", "JSR", "LDA", "LDX", "LDY", "LSR", "NOP", "ORA",
     "PHP", "PHA", "PLA", "PLP", "ROL", "ROR", "RTI", "RTS", "SBC", "STA",
     "STX", "STY", "LAX", "SAX", "DCP", "ISC", "SLO", "SRE", "RRA", "RLA",
     "CMP", "CPX", "CPY", "BCS", "BCC", "BEQ", "BNE", "BVS", "BVC", "BMI",
     "BPL", "SEC", "SED", "SEI", "CLC", "CLD", "CLI", "CLV", "TAX", "TAY",
     "TXS", "TSX", "TXA", "TYA"}

----------------------------------------------------------------------------
(* The CPU memory bus (CpuMem).  Internal RAM is 2 KiB mirrored four times  *)
(* over 0x0000-0x1FFF and starts zeroed; 0x2000-0x401F are the registers of *)
(* the PPU, APU and I/O, which belong to other components and read as 0     *)
(* here; 0x4020-0xFFFF is the cartridge, an NROM board without PRG-RAM.     *)

\* the byte every ROM cell outside the loaded program holds (NOP)
PadByte == \hEA

RamAt(mem, i) == IF i \in DOMAIN mem THEN mem[i] ELSE 0

RomAt(addr) == IF addr \in DOMAIN rom THEN rom[addr] ELSE PadByte

\* CpuMem::get for an address already in 0..0xFFFF
get_at(c, ad) ==
    IF ad < \h2000 THEN RamAt(c.ram, ad % \h0800)
    ELSE IF ad >= \h8000 THEN RomAt(ad)
    ELSE 0

get(c, addr) == get_at(c, Wrap16(addr))

\* Nrom::get_cpu_space panics for 0x4020-0x5FFF, and for 0x6000-0x7FFF
\* when the board has no PRG-RAM
get_panics(addr) == Wrap16(addr) >= \h4020 /\ Wrap16(addr) < \h8000

\* CpuMem::set: RAM takes the byte, a register write leaves the CPU alone,
\* and Nrom::set_cpu_space panics on every cartridge address (no PRG-RAM)
set(c, addr, val) ==
    IF addr < \h2000 THEN [c EXCEPT !.ram = ((addr % \h0800) :> val) @@ c.ram]
    ELSE IF addr >= \h4020 THEN [c EXCEPT !.panicked = TRUE]
    ELSE c

----------------------------------------------------------------------------
(* Cpu: the record the handlers work on.                                    *)

Cur ==
    [a |-> a, x |-> x, y |-> y, pc |-> pc, s |-> s, p |-> p,
     nmi |-> nmi, irq |-> irq, reset |-> reset,
     remaining_pause |-> remaining_pause,
     instruction_counter |-> instruction_counter,
     ram |-> ram, oamdma |-> oamdma, panicked |-> panicked, ret |-> 0,
     val |-> 0]

\* a handler's return value: ret is the u16 or u8 it returns, val the byte
\* of a returned pair
Ret(c, n) == [c EXCEPT !.ret = n]

unreachable(c) == [c EXCEPT !.panicked = TRUE, !.ret = 0]

next_byte(c) == get(c, c.pc + 1)

_different_pages(addr1, addr2) ==
    BitAnd(addr1, \hFF00) # BitAnd(addr2, \hFF00)

\* an indexed address and whether the index moved it to another page
crossing(origin, dest) ==
    [addr |-> dest, page_crossed |-> _different_pages(origin, dest)]

\* jump is <<>> for None and <<value>> for Some(value)
absolute_lookup(c, jump) ==
    IF jump # <<>>
    THEN crossing(join_bytes(get(c, c.pc + 2), get(c, c.pc + 1)),
                  Wrap16(join_bytes(get(c, c.pc + 2), get(c, c.pc + 1)) + jump[1]))
    ELSE [addr |-> join_bytes(get(c, c.pc + 2), get(c, c.pc + 1)),
          page_crossed |-> FALSE]

\* the Indirect arm without its page wrap: the high byte always at addr + 1
indirect_target_without_wrap(c, addr) ==
    join_bytes(get(c, addr + 1), get(c, addr))

\* the Indirect arm of resolve_addr, for the pointer addr
indirect_target(c, addr) ==
    join_bytes(get(c, IF BitAnd(addr, \h00FF) = \h00FF
                      THEN BitAnd(addr, \hFF00)
                      ELSE addr + 1),
               get(c, addr))

\* the two-byte read of the IndirectX and IndirectY arms, for the
\* zero-page pointer arg
zero_page_word(c, arg) ==
    join_bytes(get(c, join_bytes(0, Wrap8(arg + 1))), get(c, join_bytes(0, arg)))

resolve_addr(c, op) ==
    CASE op.mode = "Accumulator" -> [addr |-> 0, page_crossed |-> FALSE]
      [] op.mode = "Implicit" -> [addr |-> 0, page_crossed |-> FALSE]
      [] op.mode = "Immediate" ->
            [addr |-> Wrap16(c.pc + 1), page_crossed |-> FALSE]
      [] op.mode = "Absolute" -> absolute_lookup(c, <<>>)
      [] op.mode = "AbsoluteX" -> absolute_lookup(c, <<c.x>>)
      [] op.mode = "AbsoluteY" -> absolute_lookup(c, <<c.y>>)
      [] op.mode = "ZeroPage" ->
            [addr |-> join_bytes(0, next_byte(c)), page_crossed |-> FALSE]
      [] op.mode = "ZeroPageX" ->
            [addr |-> join_bytes(0, Wrap8(next_byte(c) + c.x)),
             page_crossed |-> FALSE]
      [] op.mode = "ZeroPageY" ->
            [addr |-> join_bytes(0, Wrap8(next_byte(c) + c.y)),
             page_crossed |-> FALSE]
      [] op.mode = "Relative" ->
            crossing(c.pc, Wrap16(c.pc + SignExtend16(next_byte(c))))
      [] op.mode = "Indirect" ->
            [addr |-> indirect_target(c, join_bytes(get(c, c.pc + 2),
                                                    get(c, c.pc + 1))),
             page_crossed |-> FALSE]
      [] op.mode = "IndirectX" ->
            [addr |-> zero_page_word(c, Wrap8(next_byte(c) + c.x)),
             page_crossed |-> FALSE]
      [] op.mode = "IndirectY" ->
            crossing(zero_page_word(c, next_byte(c)),
                     Wrap16(zero_page_word(c, next_byte(c)) + c.y))

\* the byte at the address the opcode points to
operand(c, op) == get(c, resolve_addr(c, op).addr)

\* CpuMem::get_page reads the 256 bytes of a page off the bus: a page the
\* mapper fails on (0x40-0x7F) cannot be read
get_page_panics(page) == page >= \h40 /\ page < \h80

\* a write to 0x4014 starts an OAM DMA instead of reaching the bus: oamdma
\* collects the pages handed to set_oamdma
mem_write(c, addr, val) ==
    IF addr = \h4014
    THEN IF get_page_panics(val) THEN [c EXCEPT !.panicked = TRUE]
         ELSE [c EXCEPT !.oamdma = Append(c.oamdma, val),
                        !.remaining_pause = c.remaining_pause + DMA_PAUSE]
    ELSE set(c, addr, val)

stack_push(c, datum) ==
    [mem_write(c, join_bytes(\h01, c.s), datum) EXCEPT !.s = Wrap8(c.s + 255)]

stack_pop_reading_first(c) ==
    [c EXCEPT !.s = Wrap8(c.s + 1),
              !.ret = get(c, join_bytes(\h01, c.s))]

\* stack_pop moves S first; the byte it returns is the one under the new S
stack_pop(c) ==
    [c EXCEPT !.s = Wrap8(c.s + 1),
              !.ret = get(c, join_bytes(\h01, Wrap8(c.s + 1)))]

\* the last line of interrupt: PC from the vector
load_vector(c, vector) ==
    [c EXCEPT !.pc = join_bytes(get(c, vector + 1), get(c, vector))]

\* interrupt with the two bytes of PC pushed in the other order
interrupt_low_byte_first(c, b_mask, vector) ==
    load_vector(
        stack_push(stack_push(stack_push(c, c.pc % 256), c.pc \div 256),
                   BitOr(c.p, b_mask)),
        vector)

interrupt(c, b_mask, vector) ==
    load_vector(
        stack_push(stack_push(stack_push(c, c.pc \div 256), c.pc % 256),
                   BitOr(c.p, b_mask)),
        vector)

interrupt_disabled(c) == contains(c.p, INTERRUPT_DISABLE)

carry(c) == contains(c.p, CARRY)

zero(c) == contains(c.p, ZERO)

overflow(c) == contains(c.p, OVERFLOW)

negative(c) == contains(c.p, NEGATIVE)

cpu_irq(c) ==
    IF ~interrupt_disabled(c)
    THEN interrupt([c EXCEPT !.irq = FALSE], \h30, IRQ_VECTOR)
    ELSE [c EXCEPT !.irq = FALSE]

cpu_nmi(c) == interrupt([c EXCEPT !.nmi = FALSE], \h30, NMI_VECTOR)

cpu_reset(c) == interrupt([c EXCEPT !.reset = FALSE], \h30, RESET_VECTOR)

page_crossed_penalty(pause, op, page_crossed) ==
    IF op.cross /\ page_crossed THEN pause + 1 ELSE pause

set_pause_and_return_shift(c, pause, op, page_crossed) ==
    [c EXCEPT !.remaining_pause = page_crossed_penalty(pause, op, page_crossed),
              !.ret = byte_count(op.mode)]

_group_1_pause_and_shift(c, op, page_crossed) ==
    CASE op.mode = "Immediate" -> set_pause_and_return_shift(c, 1, op, page_crossed)
      [] op.mode = "ZeroPage" -> set_pause_and_return_shift(c, 2, op, page_crossed)
      [] op.mode \in {"ZeroPageX", "ZeroPageY", "Absolute"} ->
            set_pause_and_return_shift(c, 3, op, page_crossed)
      [] op.mode \in {"AbsoluteX", "AbsoluteY"} ->
            set_pause_and_return_shift(c, 3, op, page_crossed)
      [] op.mode = "IndirectX" -> set_pause_and_return_shift(c, 5, op, page_crossed)
      [] op.mode = "IndirectY" -> set_pause_and_return_shift(c, 4, op, page_crossed)
      [] OTHER -> unreachable(c)

_illegal_opcodes_pause_and_shift(c, op, page_crossed) ==
    CASE op.mode = "Absolute" -> set_pause_and_return_shift(c, 5, op, page_crossed)
      [] op.mode \in {"AbsoluteX", "AbsoluteY"} ->
            set_pause_and_return_shift(c, 6, op, page_crossed)
      [] op.mode = "ZeroPage" -> set_pause_and_return_shift(c, 4, op, page_crossed)
      [] op.mode = "ZeroPageX" -> set_pause_and_return_shift(c, 5, op, page_crossed)
      [] op.mode \in {"IndirectX", "IndirectY"} ->
            set_pause_and_return_shift(c, 7, op, page_crossed)
      [] OTHER -> unreachable(c)

set_flag(c, mask, set_to) ==
    [c EXCEPT !.p = IF set_to
                    THEN (IF contains(c.p, mask) THEN c.p ELSE c.p + mask)
                    ELSE (IF contains(c.p, mask) THEN c.p - mask ELSE c.p)]

set_carry(c, v) == set_flag(c, CARRY, v)

set_zero(c, v) == set_flag(c, ZERO, v)

set_interrupt_disable(c, v) == set_flag(c, INTERRUPT_DISABLE, v)

set_decimal(c, v) == set_flag(c, DECIMAL, v)

set_overflow(c, v) == set_flag(c, OVERFLOW, v)

set_negative(c, v) == set_flag(c, NEGATIVE, v)

set_value_flags_zero_only(c, val) == set_zero(c, val = 0)

set_value_flags(c, val) ==
    set_zero(set_negative(c, BitAnd(val, SIGN_BIT) # 0), val = 0)

----------------------------------------------------------------------------
(* Opcodes.                                                                 *)

\* the closures execute_opcode hands to flag_op, by operation
flag_closure(c, operation) ==
    CASE operation = "SEC" -> set_carry(c, TRUE)
      [] operation = "SED" -> set_decimal(c, TRUE)
      [] operation = "SEI" -> set_interrupt_disable(c, TRUE)
      [] operation = "CLC" -> set_carry(c, FALSE)
      [] operation = "CLD" -> set_decimal(c, FALSE)
      [] operation = "CLI" -> set_interrupt_disable(c, FALSE)
      [] operation = "CLV" -> set_overflow(c, FALSE)

flag_op(c, operation) ==
    [flag_closure(c, operation) EXCEPT !.remaining_pause = 2, !.ret = 1]

\* the closures execute_opcode (and lax) hand to transfer_op, by operation:
\* the CPU after the move, the value moved and whether it sets the flags
transfer_closure(c, operation) ==
    CASE operation = "TAX" ->
            [c |-> [c EXCEPT !.x = c.a], new_val |-> c.a, update_flags |-> TRUE]
      [] operation = "TAY" ->
            [c |-> [c EXCEPT !.y = c.a], new_val |-> c.a, update_flags |-> TRUE]
      [] operation = "TXS" ->
            [c |-> [c EXCEPT !.s = c.x], new_val |-> c.x, update_flags |-> FALSE]
      [] operation = "TSX" ->
            [c |-> [c EXCEPT !.x = c.s], new_val |-> c.s, update_flags |-> TRUE]
      [] operation = "TXA" ->
            [c |-> [c EXCEPT !.a = c.x], new_val |-> c.x, update_flags |-> TRUE]
      [] operation = "TYA" ->
            [c |-> [c EXCEPT !.a = c.y], new_val |-> c.y, update_flags |-> TRUE]

transfer_op(c, operation) ==
    LET flags(f) ==
            IF f.update_flags THEN set_value_flags(f.c, f.new_val) ELSE f.c
    IN  [flags(transfer_closure(c, operation))
            EXCEPT !.remaining_pause = 1, !.ret = 1]

\* adc with the carry left out of the sum
adc_ignoring_carry(c, op) ==
    LET alu(value) ==
            LET signed_sum == AsI8(value) + AsI8(c.a)
                first_add == Wrap8(c.a + value)
            IN  set_overflow(
                    set_value_flags(
                        set_carry([c EXCEPT !.a = first_add], c.a + value > 255),
                        first_add),
                    signed_sum < -128 \/ signed_sum > 127)
    IN  _group_1_pause_and_shift(alu(operand(c, op)), op,
                                 resolve_addr(c, op).page_crossed)

adc(c, op) ==
    LET alu(value, cin) ==
            LET signed_sum == AsI8(value) + AsI8(c.a) + cin
                first_add == Wrap8(c.a + value)
                overflowing1 == c.a + value > 255
                second_add == Wrap8(first_add + cin)
                overflowing2 == first_add + cin > 255
            IN  set_overflow(
                    set_value_flags(
                        set_carry([c EXCEPT !.a = second_add],
                                  overflowing1 \/ overflowing2),
                        second_add),
                    signed_sum < -128 \/ signed_sum > 127)
    IN  _group_1_pause_and_shift(alu(operand(c, op), IF carry(c) THEN 1 ELSE 0),
                                 op, resolve_addr(c, op).page_crossed)

and(c, op) ==
    LET alu(value) == set_value_flags([c EXCEPT !.a = value], value) IN
    _group_1_pause_and_shift(alu(BitAnd(c.a, operand(c, op))), op, FALSE)

\* the pause/shift match that ends asl, lsr, rol and ror alike
shift_pause_and_shift(c, op) ==
    CASE op.mode = "Accumulator" -> set_pause_and_return_shift(c, 1, op, FALSE)
      [] op.mode = "ZeroPage" -> set_pause_and_return_shift(c, 4, op, FALSE)
      [] op.mode \in {"ZeroPageX", "Absolute"} ->
            set_pause_and_return_shift(c, 5, op, FALSE)
      [] op.mode = "AbsoluteX" -> set_pause_and_return_shift(c, 6, op, FALSE)
      [] op.mode \in {"AbsoluteY", "IndirectX", "IndirectY"} -> Ret(c, 0)
      [] OTHER -> unreachable(c)

asl(c, op) ==
    LET shift(old) ==
            Ret(set_value_flags(set_carry(c, BitAnd(old, \h80) # 0),
                                Wrap8(old * 2)),
                Wrap8(old * 2))
        write(r) == mem_write(r, resolve_addr(c, op).addr, r.ret)
        keep(r) == [r EXCEPT !.a = r.ret]
    IN  shift_pause_and_shift(
            IF op.mode = "Accumulator" THEN keep(shift(c.a))
            ELSE write(shift(operand(c, op))),
            op)

bit(c, op) ==
    LET flags(value) ==
            set_zero(
                set_overflow(set_negative(c, BitAnd(value, SIGN_BIT) # 0),
                             BitAnd(value, \h40) # 0),
                BitAnd(value, c.a) = 0)
        pause(c3, page_crossed) ==
            CASE op.mode = "ZeroPage" ->
                    set_pause_and_return_shift(c3, 2, op, page_crossed)
              [] op.mode = "Absolute" ->
                    set_pause_and_return_shift(c3, 3, op, page_crossed)
              [] OTHER -> unreachable(c3)
    IN  pause(flags(operand(c, op)), resolve_addr(c, op).page_crossed)

branch_op(c, op, branch) ==
    LET jump(r) ==
            [c EXCEPT !.pc = r.addr,
                      !.remaining_pause = 2 + (IF r.page_crossed THEN 3 ELSE 1)]
    IN  Ret(IF branch THEN jump(resolve_addr(c, op))
            ELSE [c EXCEPT !.remaining_pause = 2],
            2)

\* brk without the test of InterruptDisable
brk_unmasked(c, op) ==
    Ret(interrupt([c EXCEPT !.pc = Wrap16(c.pc + 1), !.remaining_pause = 6],
                  \h30, IRQ_VECTOR),
        0)

brk(c, op) ==
    IF interrupt_disabled(c) THEN [c EXCEPT !.pc = Wrap16(c.pc + 1), !.ret = 0]
    ELSE Ret(interrupt([c EXCEPT !.pc = Wrap16(c.pc + 1),
                                 !.remaining_pause = 6],
                       \h30, IRQ_VECTOR),
             0)

compare_op(c, op, to) ==
    LET flags(value) ==
            set_negative(set_zero(set_carry(c, to >= value), to = value),
                         Wrap8(to + 256 - value) >= 128)
    IN  _group_1_pause_and_shift(flags(operand(c, op)), op,
                                 resolve_addr(c, op).page_crossed)

\* returns the CPU (ret is the shift) and the new value
increment(c, val, op, decrement) ==
    LET v == IF decrement THEN Wrap8(val + 255) ELSE Wrap8(val + 1)
        pause(c1) ==
            CASE op.mode = "Implicit" ->
                    set_pause_and_return_shift(c1, 1, op, FALSE)
              [] op.mode = "ZeroPage" ->
                    set_pause_and_return_shift(c1, 4, op, FALSE)
              [] op.mode \in {"ZeroPageX", "Absolute"} ->
                    set_pause_and_return_shift(c1, 5, op, FALSE)
              [] op.mode = "AbsoluteX" ->
                    set_pause_and_return_shift(c1, 6, op, FALSE)
              [] OTHER -> Ret(c1, 0)
    IN  [pause(set_value_flags(c, v)) EXCEPT !.val = v]

dec(c, op) ==
    LET write(i) == mem_write(i, resolve_addr(c, op).addr, i.val) IN
    write(increment(c, operand(c, op), op, TRUE))

dex(c, op) ==
    LET keep(i) == [i EXCEPT !.x = i.val] IN
    keep(increment(c, c.x, op, TRUE))

dey(c, op) ==
    LET keep(i) == [i EXCEPT !.y = i.val] IN
    keep(increment(c, c.y, op, TRUE))

eor(c, op) ==
    LET alu(value) == set_value_flags([c EXCEPT !.a = value], value) IN
    _group_1_pause_and_shift(alu(BitXor(c.a, operand(c, op))), op,
                             resolve_addr(c, op).page_crossed)

inc(c, op) ==
    LET write(i) == mem_write(i, resolve_addr(c, op).addr, i.val) IN
    write(increment(c, operand(c, op), op, FALSE))

inx(c, op) ==
    LET keep(i) == [i EXCEPT !.x = i.val] IN
    keep(increment(c, c.x, op, FALSE))

iny(c, op) ==
    LET keep(i) == [i EXCEPT !.y = i.val] IN
    keep(increment(c, c.y, op, FALSE))

jmp(c, op) ==
    LET pause(c1) ==
            CASE op.mode = "Absolute" ->
                    [c1 EXCEPT !.remaining_pause = 2, !.ret = 0]
              [] op.mode = "Indirect" ->
                    [c1 EXCEPT !.remaining_pause = 4, !.ret = 0]
              [] OTHER -> unreachable(c1)
    IN  pause([c EXCEPT !.pc = resolve_addr(c, op).addr])

\* jsr pushing the address of the next instruction (PC + 3), not PC + 2
jsr_pushes_next(c, op) ==
    LET bytes == Wrap16(c.pc + 3) IN
    [stack_push(stack_push(c, bytes \div 256), bytes % 256)
        EXCEPT !.pc = resolve_addr(c, op).addr,
               !.remaining_pause = 5,
               !.ret = 0]

jsr(c, op) ==
    LET bytes == Wrap16(c.pc + 2) IN
    [stack_push(stack_push(c, bytes \div 256), bytes % 256)
        EXCEPT !.pc = resolve_addr(c, op).addr,
               !.remaining_pause = 5,
               !.ret = 0]

lda(c, op) ==
    LET load(value) == set_value_flags([c EXCEPT !.a = value], value) IN
    _group_1_pause_and_shift(load(operand(c, op)), op,
                             resolve_addr(c, op).page_crossed)

ldx(c, op) ==
    LET load(value) == set_value_flags([c EXCEPT !.x = value], value) IN
    _group_1_pause_and_shift(load(operand(c, op)), op,
                             resolve_addr(c, op).page_crossed)

ldy(c, op) ==
    LET load(value) == set_value_flags([c EXCEPT !.y = value], value) IN
    _group_1_pause_and_shift(load(operand(c, op)), op,
                             resolve_addr(c, op).page_crossed)

lax(c, op) ==
    LET flags(c2) == set_value_flags(c2, c2.x)
        pause(c3) ==
            CASE op.mode = "IndirectX" ->
                    set_pause_and_return_shift(c3, 0, op, FALSE)
              [] op.mode = "ZeroPage" ->
                    set_pause_and_return_shift(c3, 0, op, FALSE)
              [] op.mode \in {"Absolute", "ZeroPageY"} ->
                    set_pause_and_return_shift(c3, 3, op, FALSE)
              [] op.mode = "IndirectY" ->
                    set_pause_and_return_shift(c3, 0, op, FALSE)
              [] op.mode = "AbsoluteY" ->
                    set_pause_and_return_shift(c3, 0, op, FALSE)
              [] OTHER -> unreachable(c3)
    IN  pause(flags(transfer_op(lda(c, op), "TAX")))

lsr(c, op) ==
    LET shift(old) ==
            Ret(set_value_flags(set_carry(c, BitAnd(old, 1) # 0), old \div 2),
                old \div 2)
        write(r) == mem_write(r, resolve_addr(c, op).addr, r.ret)
        keep(r) == [r EXCEPT !.a = r.ret]
    IN  shift_pause_and_shift(
            IF op.mode = "Accumulator" THEN keep(shift(c.a))
            ELSE write(shift(operand(c, op))),
            op)

nop(c, op) == [c EXCEPT !.remaining_pause = 2, !.ret = byte_count(op.mode)]

ora(c, op) ==
    LET alu(value) == set_value_flags([c EXCEPT !.a = value], value) IN
    _group_1_pause_and_shift(alu(BitOr(c.a, operand(c, op))), op,
                             resolve_addr(c, op).page_crossed)

php(c, op) ==
    [stack_push(c, BitOr(c.p, PHP_MASK)) EXCEPT !.remaining_pause = 2, !.ret = 1]

pha(c, op) ==
    [stack_push(c, c.a) EXCEPT !.remaining_pause = 2, !.ret = 1]

pla(c, op) ==
    LET load(c1) == set_value_flags([c1 EXCEPT !.a = c1.ret], c1.ret) IN
    [load(stack_pop(c)) EXCEPT !.remaining_pause = 3, !.ret = 1]

plp(c, op) ==
    LET load(c1) ==
            [c1 EXCEPT !.p = from_bits_truncate(BitAnd(c1.ret, 255 - PHP_MASK))]
    IN  [load(stack_pop(c)) EXCEPT !.remaining_pause = 3, !.ret = 1]

\* ret is the rotated byte
rol_internal(c, value) ==
    LET out == IF carry(c) THEN BitXor(Wrap8(value * 2), \h01)
               ELSE Wrap8(value * 2)
    IN  Ret(set_value_flags(set_carry(c, BitAnd(value, \h80) # 0), out), out)

rol(c, op) ==
    LET write(r) == mem_write(r, resolve_addr(c, op).addr, r.ret)
        keep(r) == [r EXCEPT !.a = r.ret]
    IN  shift_pause_and_shift(
            IF op.mode = "Accumulator" THEN keep(rol_internal(c, c.a))
            ELSE write(rol_internal(c, operand(c, op))),
            op)

\* ret is the rotated byte
ror_internal(c, value) ==
    LET out == IF carry(c) THEN BitXor(value \div 2, \h80) ELSE value \div 2
    IN  Ret(set_value_flags(set_carry(c, BitAnd(value, 1) # 0), out), out)

ror(c, op) ==
    LET write(r) == mem_write(r, resolve_addr(c, op).addr, r.ret)
        keep(r) == [r EXCEPT !.a = r.ret]
    IN  shift_pause_and_shift(
            IF op.mode = "Accumulator" THEN keep(ror_internal(c, c.a))
            ELSE write(ror_internal(c, operand(c, op))),
            op)

rts(c, op) ==
    LET high(c1) ==
            LET jump(c2) ==
                    [c2 EXCEPT !.pc = join_bytes(c2.ret, c1.ret),
                               !.remaining_pause = c2.remaining_pause + 5,
                               !.ret = 1]
            IN  jump(stack_pop(c1))
    IN  high(stack_pop(c))

rti_advancing(c, op) ==
    LET status(c1) ==
            [c1 EXCEPT !.p = from_bits_truncate(c1.ret),
                       !.remaining_pause = c1.remaining_pause + 1]
    IN  rts(status(stack_pop(c)), op)

rti(c, op) ==
    LET status(c1) ==
            [c1 EXCEPT !.p = from_bits_truncate(c1.ret),
                       !.remaining_pause = c1.remaining_pause + 1]
    IN  Ret(rts(status(stack_pop(c)), op), 0)

sax(c, op) ==
    LET pause(c1) ==
            CASE op.mode = "ZeroPage" ->
                    set_pause_and_return_shift(c1, 2, op, FALSE)
              [] op.mode \in {"Absolute", "ZeroPageY"} ->
                    set_pause_and_return_shift(c1, 3, op, FALSE)
              [] op.mode = "IndirectX" ->
                    set_pause_and_return_shift(c1, 5, op, FALSE)
              [] OTHER -> unreachable(c1)
    IN  pause(mem_write(c, resolve_addr(c, op).addr, BitAnd(c.a, c.x)))

\* sbc with Carry taken for the borrow itself (borrow = C, not 1 - C)
sbc_carry_as_borrow(c, op) ==
    LET alu(value, borrow) ==
            LET signed_sum == AsI8(value) - AsI8(c.a) - borrow
                first_sub == Wrap8(c.a + 256 - value)
                overflowing1 == c.a < value
                second_sub == Wrap8(first_sub + 256 - borrow)
                overflowing2 == first_sub < borrow
            IN  set_overflow(
                    set_value_flags(
                        set_carry([c EXCEPT !.a = second_sub],
                                  ~(overflowing1 \/ overflowing2)),
                        second_sub),
                    signed_sum < -128 \/ signed_sum > 127)
    IN  _group_1_pause_and_shift(alu(operand(c, op), IF carry(c) THEN 1 ELSE 0),
                                 op, resolve_addr(c, op).page_crossed)

sbc(c, op) ==
    LET alu(value, borrow) ==
            LET signed_sum == AsI8(value) - AsI8(c.a) - borrow
                first_sub == Wrap8(c.a + 256 - value)
                overflowing1 == c.a < value
                second_sub == Wrap8(first_sub + 256 - borrow)
                overflowing2 == first_sub < borrow
            IN  set_overflow(
                    set_value_flags(
                        set_carry([c EXCEPT !.a = second_sub],
                                  ~(overflowing1 \/ overflowing2)),
                        second_sub),
                    signed_sum < -128 \/ signed_sum > 127)
    IN  _group_1_pause_and_shift(alu(operand(c, op), IF carry(c) THEN 0 ELSE 1),
                                 op, resolve_addr(c, op).page_crossed)

store(c, op, value) ==
    LET pause(c1) ==
            CASE op.mode = "ZeroPage" ->
                    set_pause_and_return_shift(c1, 2, op, FALSE)
              [] op.mode \in {"ZeroPageX", "ZeroPageY", "Absolute"} ->
                    set_pause_and_return_shift(c1, 3, op, FALSE)
              [] op.mode \in {"AbsoluteX", "AbsoluteY"} ->
                    set_pause_and_return_shift(c1, 4, op, FALSE)
              [] op.mode \in {"IndirectX", "IndirectY"} ->
                    set_pause_and_return_shift(c1, 5, op, FALSE)
              [] OTHER -> unreachable(c1)
    IN  pause(mem_write(c, resolve_addr(c, op).addr, value))

sta(c, op) == store(c, op, c.a)

stx(c, op) == store(c, op, c.x)

sty(c, op) == store(c, op, c.y)

\* the closures execute_opcode hands to illegal_op: two official handlers
\* run one after the other, the return value of each dropped
illegal_closure(c, op) ==
    LET cmp(d) == compare_op(d, op, d.a) IN
    CASE op.operation = "DCP" -> cmp(dec(c, op))
      [] op.operation = "ISC" -> sbc(inc(c, op), op)
      [] op.operation = "SLO" -> ora(asl(c, op), op)
      [] op.operation = "SRE" -> eor(lsr(c, op), op)
      [] op.operation = "RRA" -> adc(ror(c, op), op)
      [] op.operation = "RLA" -> and(rol(c, op), op)

illegal_op(c, op) ==
    _illegal_opcodes_pause_and_shift(
        [illegal_closure(c, op) EXCEPT !.remaining_pause = 0], op, FALSE)

execute_opcode(c, op) ==
    LET o == op.operation
        advance(r) == [r EXCEPT !.pc = Wrap16(r.pc + r.ret)]
    IN  advance(
          CASE o = "ADC" -> adc(c, op)
               [] o = "AND" -> and(c, op)
               [] o = "ASL" -> asl(c, op)
               [] o = "BIT" -> bit(c, op)
               [] o = "BRK" -> brk(c, op)
               [] o = "EOR" -> eor(c, op)
               [] o = "DEC" -> dec(c, op)
               [] o = "DEX" -> dex(c, op)
               [] o = "DEY" -> dey(c, op)
               [] o = "INC" -> inc(c, op)
               [] o = "INX" -> inx(c, op)
               [] o = "INY" -> iny(c, op)
               [] o = "JMP" -> jmp(c, op)
               [] o = "JSR" -> jsr(c, op)
               [] o = "LDA" -> lda(c, op)
               [] o = "LDX" -> ldx(c, op)
               [] o = "LDY" -> ldy(c, op)
               [] o = "LSR" -> lsr(c, op)
               [] o = "NOP" -> nop(c, op)
               [] o = "ORA" -> ora(c, op)
               [] o = "PHP" -> php(c, op)
               [] o = "PHA" -> pha(c, op)
               [] o = "PLA" -> pla(c, op)
               [] o = "PLP" -> plp(c, op)
               [] o = "ROL" -> rol(c, op)
               [] o = "ROR" -> ror(c, op)
               [] o = "RTI" -> rti(c, op)
               [] o = "RTS" -> rts(c, op)
               [] o = "SBC" -> sbc(c, op)
               [] o = "STA" -> sta(c, op)
               [] o = "STX" -> stx(c, op)
               [] o = "STY" -> sty(c, op)
               [] o = "LAX" -> lax(c, op)
               [] o = "SAX" -> sax(c, op)
               [] o \in {"DCP", "ISC", "SLO", "SRE", "RRA", "RLA"} ->
                        illegal_op(c, op)
               [] o = "CMP" -> compare_op(c, op, c.a)
               [] o = "CPX" -> compare_op(c, op, c.x)
               [] o = "CPY" -> compare_op(c, op, c.y)
               [] o = "BCS" -> branch_op(c, op, carry(c))
               [] o = "BCC" -> branch_op(c, op, ~carry(c))
               [] o = "BEQ" -> branch_op(c, op, zero(c))
               [] o = "BNE" -> branch_op(c, op, ~zero(c))
               [] o = "BVS" -> branch_op(c, op, overflow(c))
               [] o = "BVC" -> branch_op(c, op, ~overflow(c))
               [] o = "BMI" -> branch_op(c, op, negative(c))
               [] o = "BPL" -> branch_op(c, op, ~negative(c))
               [] o \in {"SEC", "SED", "SEI", "CLC", "CLD", "CLI", "CLV"} ->
                        flag_op(c, o)
               [] o \in {"TAX", "TAY", "TXS", "TSX", "TXA", "TYA"} ->
                        transfer_op(c, o)
               [] OTHER -> unreachable(c))

\* the operations whose handler reads the byte at the resolved address
ReadsOperand ==
    {"ADC", "AND", "ASL", "BIT", "EOR", "DEC", "INC", "LDA", "LDX", "LDY",
     "LSR", "ORA", "ROL", "ROR", "SBC", "LAX", "DCP", "ISC", "SLO", "SRE",
     "RRA", "RLA", "CMP", "CPX", "CPY"}

\* a read the executing instruction makes lands where the mapper panics
operand_get_panics(c, op) ==
    /\ op.operation \in ReadsOperand
    /\ op.mode \notin {"Accumulator", "Implicit"}
    /\ get_panics(resolve_addr(c, op).addr)

\* the end of tick: count the instruction, fetch its opcode, execute it
fetch_and_execute(c) ==
    LET run(c1, op) ==
            IF get_panics(c1.pc) \/ operand_get_panics(c1, op)
            THEN [c1 EXCEPT !.panicked = TRUE]
            ELSE execute_opcode(c1, op)
    IN  run([c EXCEPT !.instruction_counter = c.instruction_counter + 1],
            resolve(get(c, c.pc)))

\* tick with the `return` of its first arm lost: the pause is counted down
\* and the tick goes on to the interrupts and the fetch
tick_without_return(c) ==
    LET go(d) ==
            IF d.nmi THEN cpu_nmi(d)
            ELSE IF d.irq THEN cpu_irq(d)
            ELSE IF d.reset THEN cpu_reset(d)
            ELSE fetch_and_execute(d)
    IN  IF c.remaining_pause > 0
        THEN go([c EXCEPT !.remaining_pause = c.remaining_pause - 1])
        ELSE go(c)

\* tick with the irq arm ahead of the nmi arm
tick_irq_before_nmi(c) ==
    IF c.remaining_pause > 0
    THEN [c EXCEPT !.remaining_pause = c.remaining_pause - 1]
    ELSE IF c.irq THEN cpu_irq(c)
    ELSE IF c.nmi THEN cpu_nmi(c)
    ELSE IF c.reset THEN cpu_reset(c)
    ELSE fetch_and_execute(c)

\* Clocked::tick, as a function of the CPU
tick(c) ==
    IF c.remaining_pause > 0
    THEN [c EXCEPT !.remaining_pause = c.remaining_pause - 1]
    ELSE IF c.nmi THEN cpu_nmi(c)
    ELSE IF c.irq THEN cpu_irq(c)
    ELSE IF c.reset THEN cpu_reset(c)
    ELSE fetch_and_execute(c)

\* the branch of tick a CPU takes
TickKind(c) ==
    IF c.remaining_pause > 0 THEN "pause"
    ELSE IF c.nmi THEN "nmi"
    ELSE IF c.irq THEN "irq"
    ELSE IF c.reset THEN "reset"
    ELSE "fetch"

----------------------------------------------------------------------------
(* ROM images and register files the runs start from.                       *)

Image(base, bytes) ==
    [i \in base..(base + Len(bytes) - 1) |-> bytes[i - base + 1]]

\* NMI -> 0x9000, RESET -> 0xC000, IRQ/BRK -> 0x9010, each handler one RTI
Vectors ==
    Image(\hFFFA, <<\h00, \h90, \h00, \hC0, \h10, \h90>>)
    @@ Image(\h9000, <<\h40>>) @@ Image(\h9010, <<\h40>>)

\* a cartridge: a program at 0x8000 (the test-mode entry), one at the RESET
\* target 0xC000, a subroutine at 0x9020, and the vectors
Cart(main, boot) ==
    Image(\h8000, main) @@ Image(\hC000, boot)
    @@ Image(\h9020, <<\h60>>) @@ Vectors

Roms ==
    { \* CLI; CLC; CLC             | LDX #$01; TXS; PHA
      Cart(<<\h58, \h18, \h18>>, <<\hA2, \h01, \h9A, \h48>>),
      \* SEC; PHP; PLP             | JSR $9020; CLC
      Cart(<<\h38, \h08, \h28>>, <<\h20, \h20, \h90, \h18>>),
      \* LDA #$80; PHA; PLA        | CLI; BRK
      Cart(<<\hA9, \h80, \h48, \h68>>, <<\h58, \h00>>),
      \* STA $4014; NOP            | CLV; SED; SBC #$01
      Cart(<<\h8D, \h14, \h40, \hEA>>, <<\hB8, \hF8, \hE9, \h01>>) }

\* internal RAM as the runs find it: zeroed, or holding the pointers and
\* bytes the indirect modes and JMP (Indirect) pick up
NoRam == [i \in {} |-> 0]

RamImages ==
    { NoRam,
      (\h0010 :> \hFF) @@ (\h0011 :> \h02) @@ (\h00FF :> \h14)
      @@ (\h0000 :> \h40) @@ (\h02FF :> \hAA) @@ (\h0200 :> \hBB)
      @@ (\h0300 :> \hCC) @@ (\h01FE :> \hFF) }

\* register files a running program can have built (bit 4 of P is never
\* stored, bit 5 is as power-up left it)
RegFiles ==
    { [a |-> \h00, x |-> \h00, y |-> \h00, s |-> \hFD, p |-> \h24],
      [a |-> \h80, x |-> \h01, y |-> \hFF, s |-> \h01, p |-> \hE7],
      [a |-> \h7F, x |-> \hFF, y |-> \h01, s |-> \h00, p |-> \h20],
      [a |-> \hFF, x |-> \h04, y |-> \h04, s |-> \hFD, p |-> \h25] }

\* the two bytes that follow the opcode
Operands ==
    { <<\h10, \h00>>, <<\h14, \h40>>, <<\hFF, \h02>>, <<\h80, \h10>> }

----------------------------------------------------------------------------
(* The NROM mapper (mappers/nrom.rs).  A Mem is kept as the cells written   *)
(* since it was made; an unwritten cell holds the byte it was loaded with   *)
(* (0 for initialized_mem).  The field ret is the byte a get returns (0     *)
(* after a set, which returns nothing) and panicked tells that a panic!,    *)
(* expect, unimplemented! or index out of bounds ended the call.            *)

\* the k-th byte of the ROM sections that follow a cartridge header
RomSection(k) == (k + 3 * (k \div 256) + 101 * (k \div 16384)) % 256

\* a cartridge header with PRG-ROM count, CHR-ROM count and flags byte 6;
\* header[i] of the source is Header(..)[i + 1]
Header(prg, chr, flags6) ==
    <<\h4E, \h45, \h53, \h1A, prg, chr, flags6, 0, 0, 0, 0, 0, 0, 0, 0, 0>>

\* a cell of a Mem
MemAt(cells, i, loaded) == IF i \in DOMAIN cells THEN cells[i] ELSE loaded

\* Nrom::new; prg_ram is <<>> for None and <<cells>> for Some
nrom_new(header) ==
    [rom_size |-> IF header[5] = 1 THEN "Sixteen" ELSE "ThirtyTwo",
     prg_ram |-> IF BitAnd(header[7], \h04) = 1 THEN <<NoRam>> ELSE <<>>,
     prg_rom |-> NoRam,
     chr_rom |-> NoRam,
     chr_len |-> \h2000 * header[6],
     internal_vram |-> NoRam,
     nametable_mirror |-> IF BitAnd(header[7], \h01) = 1 THEN "Vertical"
                          ELSE "Horizontal",
     panicked |-> BitAnd(header[7], \h08) # 0 \/ header[5] \notin {1, 2},
     ret |-> 0]

\* the ROM section a PRG-ROM cell was loaded from
prg_loaded(m, i) == RomSection(i)

\* the ROM section a CHR-ROM cell was loaded from
chr_loaded(m, i) ==
    RomSection((IF m.rom_size = "Sixteen" THEN \h4000 ELSE \h8000) + i)

panic(m) == [m EXCEPT !.panicked = TRUE, !.ret = 0]

\* NametableMirror::mirrored_addr
nametable_mirrored_addr(mirror, addr) ==
    IF mirror = "Horizontal"
    THEN BitOr(BitAnd(addr, \h03FF), BitAnd(addr, \h0800) \div 2)
    ELSE BitAnd(addr, \h07FF)

\* Nrom::mirrored_addr; a negative result stands for the usize subtraction
\* that overflowed
mirrored_addr(m, addr) ==
    nametable_mirrored_addr(m.nametable_mirror, addr) - \h2000

\* an index internal_vram (0x1000 bytes) has a cell for
in_vram(i) == i >= 0 /\ i < \h1000

get_cpu_space_without_mirror(m, addr) ==
    CASE addr <= \h5FFF -> panic(m)
      [] addr >= \h6000 /\ addr <= \h7FFF ->
            IF m.prg_ram = <<>> THEN panic(m)
            ELSE Ret(m, MemAt(m.prg_ram[1], addr - \h6000, 0))
      [] OTHER ->
            Ret(m, MemAt(m.prg_rom, addr - \h8000, prg_loaded(m, addr - \h8000)))

get_cpu_space(m, addr) ==
    CASE addr <= \h5FFF -> panic(m)
      [] addr >= \h6000 /\ addr <= \h7FFF ->
            IF m.prg_ram = <<>> THEN panic(m)
            ELSE Ret(m, MemAt(m.prg_ram[1], addr - \h6000, 0))
      [] addr >= \h8000 /\ addr <= \hBFFF ->
            Ret(m, MemAt(m.prg_rom, addr - \h8000, prg_loaded(m, addr - \h8000)))
      [] OTHER ->
            IF m.rom_size = "Sixteen"
            THEN Ret(m, MemAt(m.prg_rom, addr - \hC000,
                              prg_loaded(m, addr - \hC000)))
            ELSE Ret(m, MemAt(m.prg_rom, addr - \h8000,
                              prg_loaded(m, addr - \h8000)))

set_cpu_space(m, addr, value) ==
    IF addr >= \h6000 /\ addr <= \h7FFF
    THEN IF m.prg_ram = <<>> THEN panic(m)
         ELSE [m EXCEPT !.ret = 0,
                        !.prg_ram =
                            <<((addr - \h6000) :> value) @@ m.prg_ram[1]>>]
    ELSE panic(m)

get_ppu_space(m, addr) ==
    CASE addr <= \h1FFF ->
            IF addr < m.chr_len
            THEN Ret(m, MemAt(m.chr_rom, addr, chr_loaded(m, addr)))
            ELSE panic(m)
      [] addr >= \h2000 /\ addr <= \h2FFF ->
            IF in_vram(mirrored_addr(m, addr))
            THEN Ret(m, MemAt(m.internal_vram, mirrored_addr(m, addr), 0))
            ELSE panic(m)
      [] addr >= \h3000 /\ addr <= \h3EFF ->
            Ret(m, MemAt(m.internal_vram, addr - \h3000, 0))
      [] OTHER -> panic(m)

set_ppu_space(m, addr, value) ==
    CASE addr <= \h1FFF ->
            IF addr < m.chr_len
            THEN [m EXCEPT !.ret = 0,
                           !.chr_rom = (addr :> value) @@ m.chr_rom]
            ELSE panic(m)
      [] addr >= \h2000 /\ addr <= \h2FFF ->
            IF in_vram(mirrored_addr(m, addr))
            THEN [m EXCEPT !.ret = 0,
                           !.internal_vram =
                               (mirrored_addr(m, addr) :> value)
                               @@ m.internal_vram]
            ELSE panic(m)
      [] addr >= \h3000 /\ addr <= \h3EFF ->
            [m EXCEPT !.ret = 0,
                      !.internal_vram =
                          ((addr - \h3000) :> value) @@ m.internal_vram]
      [] OTHER -> panic(m)

\* the header of the cartridge the CPU runs work on: 16 KiB of PRG-ROM,
\* 8 KiB of CHR-ROM, horizontal mirroring
HeaderParked == Header(1, 1, 0)

\* headers: one to three PRG-ROM units, every combination of the mirroring and
\* PRG-RAM bits, and a trainer
Headers ==
    {Header(prg, 1, flags6) : prg \in {1, 2, 3},
                              flags6 \in {\h00, \h01, \h04, \h05, \h08}}

\* CPU addresses the mapper is called with: below PRG-RAM, both ends of
\* PRG-RAM, the start of each PRG-ROM half and the last address
CpuProbes == {\h4020, \h6000, \h7FFF, \h8000, \hC000, \hFFFF}

\* PPU addresses the mapper is called with: CHR-ROM, the same offset of the
\* four nametable slots and of their shadow, and the palette range
PpuProbes ==
    {\h0000, \h2005, \h2405, \h2805, \h2C05,
     \h3005, \h3405, \h3805, \h3C05, \h3F00}

\* bytes written through the mapper
Values == {\h11, \h22}

----------------------------------------------------------------------------
(* The APU (apu/mod.rs).  A pulse channel is kept as its length counter,   *)
(* its volume and the calls the APU made on it in its last tick:            *)
(* timer_ticks counts Pulse::tick, envelope_ticks counts envelope.tick and  *)
(* length_ticks counts length_counter.tick.  sample_checks counts the       *)
(* passes through the sample_step test in the last tick, samples is the     *)
(* length of the sample buffer and pushed is <<>> or holds the sample the   *)
(* last tick pushed.  panicked tells that the cycle counter overflowed in a *)
(* build that checks overflow.                                              *)

PULSE_1 == \h01
PULSE_2 == \h02
FIVE_STEP == \h80
IRQ_INHIBIT == \h40

\* FrameCounter::from_bits_truncate
frame_counter_from_bits(value) == BitAnd(value, BitOr(FIVE_STEP, IRQ_INHIBIT))

\* EnabledChannels::from_bits_truncate
enabled_from_bits(value) == BitAnd(value, \h1F)

CLOCKS_PER_FRAME == 29781
SAMPLES_PER_FRAME == 735

\* sample_step is an f32 kept as a whole number of StepUnit-ths: SAMPLE_RATE
\* lies in 16..32, where the f32 values are the multiples of 2^-19, and every
\* sum and difference the APU takes of it, 1 and 0 is such a multiple below 32
StepUnit == 2^19

\* the f32 nearest to n / d, for a quotient in 32..64, in 2^-18-ths
F32Quotient(n, d) ==
    (n \div d) * 2^18 + (2 * (n % d) * 2^18 + d) \div (2 * d)

SAMPLE_RATE_without_halving ==
    2 * F32Quotient(CLOCKS_PER_FRAME, SAMPLES_PER_FRAME) - StepUnit

\* SAMPLE_RATE, in StepUnit-ths: halving a multiple of 2^-18 and taking 1 off
\* are exact
SAMPLE_RATE == F32Quotient(CLOCKS_PER_FRAME, SAMPLES_PER_FRAME) - StepUnit

\* Pulse::default, after no call
PulseIdle ==
    [length |-> 0, volume |-> 0,
     timer_ticks |-> 0, envelope_ticks |-> 0, length_ticks |-> 0]

\* the calls of the last tick, forgotten
Rested(pulse) ==
    [pulse EXCEPT !.timer_ticks = 0, !.envelope_ticks = 0, !.length_ticks = 0]

\* Apu::new
apu_new ==
    [cycle |-> 0,
     sample_step |-> 0,
     samples |-> 0,
     pushed |-> <<>>,
     pulse1 |-> PulseIdle,
     pulse2 |-> PulseIdle,
     sample_checks |-> 0,
     enabled |-> 0,
     frame_counter |-> 0,
     panicked |-> FALSE]

\* Pulse::set_register: the first register of a channel sets its volume (low
\* four bits), the fourth loads its length counter with a non-zero count
\* chosen by the upper five bits
pulse_set_register(pulse, addr, value) ==
    CASE addr % 4 = 0 -> [pulse EXCEPT !.volume = value % 16]
      [] addr % 4 = 3 -> [pulse EXCEPT !.length = (value \div 8) + 1]
      [] OTHER -> pulse

\* Pulse::sample: an Option, <<>> for None when the length counter is zero
pulse_sample(pulse) == IF pulse.length = 0 THEN <<>> ELSE <<pulse.volume>>

\* LengthCounter::tick
length_counter_tick(pulse) ==
    [pulse EXCEPT !.length = IF @ > 0 THEN @ - 1 ELSE 0,
                  !.length_ticks = @ + 1]

\* Envelope::tick
envelope_tick(pulse) == [pulse EXCEPT !.envelope_ticks = @ + 1]

\* Pulse::tick
pulse_tick(pulse) == [pulse EXCEPT !.timer_ticks = @ + 1]

unwrap_or(option, default) == IF option = <<>> THEN default ELSE option[1]

set_enabled_flags(u, value) ==
    LET disable(v) ==
            [v EXCEPT !.pulse1.length =
                          IF ~contains(v.enabled, PULSE_1) THEN 0 ELSE @,
                      !.pulse2.length =
                          IF ~contains(v.enabled, PULSE_2) THEN 0 ELSE @]
    IN  disable([u EXCEPT !.enabled = enabled_from_bits(value)])

\* Apu::set_register
apu_set_register(u, addr, value) ==
    CASE addr >= \h4000 /\ addr <= \h4003 ->
            [u EXCEPT !.pulse1 = pulse_set_register(@, addr, value)]
      [] addr >= \h4004 /\ addr <= \h4007 ->
            [u EXCEPT !.pulse2 = pulse_set_register(@, addr, value)]
      [] addr = \h4015 -> set_enabled_flags(u, value)
      [] addr = \h4017 ->
            [u EXCEPT !.frame_counter = frame_counter_from_bits(value)]
      [] OTHER -> u

\* Apu::sample; a sample is kept as the two channels' contributions and its
\* value in 1/100000-ths
sample_ignoring_enabled(u) ==
    LET push(pulse_1, pulse_2) ==
            [u EXCEPT !.samples = @ + 1,
                      !.pushed = <<[pulse_1 |-> pulse_1, pulse_2 |-> pulse_2,
                                    value |-> 752 * (pulse_1 + pulse_2)]>>]
    IN  push(unwrap_or(pulse_sample(u.pulse1), 0),
             unwrap_or(pulse_sample(u.pulse2), 0))

sample(u) ==
    LET push(pulse_1, pulse_2) ==
            [u EXCEPT !.samples = @ + 1,
                      !.pushed = <<[pulse_1 |-> pulse_1, pulse_2 |-> pulse_2,
                                    value |-> 752 * (pulse_1 + pulse_2)]>>]
    IN  push(IF contains(u.enabled, PULSE_1)
             THEN unwrap_or(pulse_sample(u.pulse1), 0) ELSE 0,
             IF contains(u.enabled, PULSE_2)
             THEN unwrap_or(pulse_sample(u.pulse2), 0) ELSE 0)

clock_channels_on_half_frames_only(u, half_frame) ==
    IF half_frame
    THEN [u EXCEPT !.pulse1 = envelope_tick(length_counter_tick(@)),
                   !.pulse2 = envelope_tick(length_counter_tick(@))]
    ELSE u

clock_channels_lengths_always(u, half_frame) ==
    [u EXCEPT !.pulse1 = envelope_tick(length_counter_tick(@)),
              !.pulse2 = envelope_tick(length_counter_tick(@))]

clock_channels(u, half_frame) ==
    [u EXCEPT !.pulse1 = envelope_tick(IF half_frame
                                       THEN length_counter_tick(@) ELSE @),
              !.pulse2 = envelope_tick(IF half_frame
                                       THEN length_counter_tick(@) ELSE @)]

\* Apu::tick; overflow_checks tells whether the build panics on the overflow
\* of self.cycle += 1 or wraps
apu_tick(u0, overflow_checks) ==
    LET start(u) == [u EXCEPT !.pulse1 = Rested(@), !.pulse2 = Rested(@),
                              !.sample_checks = 0, !.pushed = <<>>]
        timers(u) ==
            IF u.cycle % 2 = 0
            THEN [u EXCEPT !.pulse1 = pulse_tick(@), !.pulse2 = pulse_tick(@)]
            ELSE u
        sequence(u) ==
            CASE u.cycle = 7457 -> clock_channels(u, FALSE)
              [] u.cycle = 14913 -> clock_channels(u, TRUE)
              [] u.cycle = 22371 -> clock_channels(u, FALSE)
              [] u.cycle = 29828 -> u
              [] u.cycle = 29829 ->
                    IF ~contains(u.frame_counter, FIVE_STEP)
                    THEN [clock_channels(u, TRUE) EXCEPT !.cycle = 0]
                    ELSE u
              [] u.cycle = 37281 ->
                    IF contains(u.frame_counter, FIVE_STEP)
                    THEN [clock_channels(u, TRUE) EXCEPT !.cycle = 0]
                    ELSE u
              [] OTHER -> u
        sampling(u) ==
            IF u.cycle % 2 = 0
            THEN IF u.sample_step <= 0
                 THEN [sample(u) EXCEPT !.sample_step = @ + SAMPLE_RATE,
                                        !.sample_checks = @ + 1]
                 ELSE [u EXCEPT !.sample_step = @ - StepUnit,
                                !.sample_checks = @ + 1]
            ELSE u
        advance(u) ==
            IF u.cycle < \hFFFF THEN [u EXCEPT !.cycle = @ + 1]
            ELSE IF overflow_checks THEN [u EXCEPT !.panicked = TRUE]
            ELSE [u EXCEPT !.cycle = 0]
    IN  advance(sampling(sequence(timers(start(u0)))))

\* writes the CPU makes to the APU's registers: the two sequencer modes and
\* a write to a pulse register (the sweep of the first channel)
RegisterWrites == {<<\h4017, \h00>>, <<\h4017, \h80>>, <<\h4001, \h08>>}

\* writes the CPU makes to configure the channels: enable none, the second
\* or both, set a volume and load a length counter of each
ChannelWrites ==
    {<<\h4015, \h00>>, <<\h4015, \h02>>, <<\h4015, \h03>>,
     <<\h4000, \h3F>>, <<\h4003, \h08>>, <<\h4004, \h35>>, <<\h4007, \h10>>}

----------------------------------------------------------------------------
(* The state machine.                                                       *)

\* Cpu::new without the read of the RESET vector
new_without_reset_vector(image, test_mode) ==
    /\ rom = image
    /\ ram = NoRam
    /\ a = 0 /\ x = 0 /\ y = 0
    /\ s = \hFD
    /\ p = BitOr(BREAK, INTERRUPT_DISABLE)
    /\ nmi = FALSE /\ irq = FALSE /\ reset = FALSE
    /\ remaining_pause = 0
    /\ instruction_counter = 0
    /\ oamdma = <<>>
    /\ panicked = FALSE
    /\ pc = \h8000

\* Cpu::new
new(image, test_mode) ==
    /\ rom = image
    /\ ram = NoRam
    /\ a = 0 /\ x = 0 /\ y = 0
    /\ s = \hFD
    /\ p = BitOr(BREAK, INTERRUPT_DISABLE)
    /\ nmi = FALSE /\ irq = FALSE /\ reset = FALSE
    /\ remaining_pause = 0
    /\ instruction_counter = 0
    /\ oamdma = <<>>
    /\ panicked = FALSE
    /\ pc = IF test_mode THEN \h8000
            ELSE join_bytes(RomAt(RESET_VECTOR + 1), RomAt(RESET_VECTOR))

Init ==
    /\ \E image \in Roms, test_mode \in BOOLEAN :
          /\ new(image, test_mode)
          /\ last = IF test_mode THEN "new_test_mode" ELSE "new"
    /\ prev = Cur
    /\ flags_raised = 0
    /\ nmi_due = 0
    /\ cartridge = HeaderParked
    /\ apu = apu_new
    /\ apu_ticks = 0
    /\ nrom = nrom_new(cartridge)

\* a CPU in the middle of a run, about to fetch one instruction at 0x8000
InitOp ==
    /\ \E code \in Byte, arg \in Operands :
          rom = Image(\h8000, <<code, arg[1], arg[2]>>) @@ Vectors
    /\ ram \in RamImages
    /\ \E r \in RegFiles :
          a = r.a /\ x = r.x /\ y = r.y /\ s = r.s /\ p = r.p
    /\ pc = \h8000
    /\ nmi = FALSE /\ irq = FALSE /\ reset = FALSE
    /\ remaining_pause = 0
    /\ instruction_counter = 0
    /\ oamdma = <<>>
    /\ panicked = FALSE
    /\ last = "new"
    /\ prev = Cur
    /\ flags_raised = 0
    /\ nmi_due = 0
    /\ cartridge = HeaderParked
    /\ apu = apu_new
    /\ apu_ticks = 0
    /\ nrom = nrom_new(cartridge)

\* a CPU about to fetch ADC #operand or SBC #operand, for every A, operand
\* and Carry
InitAlu ==
    /\ \E code \in {\h69, \hE9}, arg \in Byte :
          rom = Image(\h8000, <<code, arg>>) @@ Vectors
    /\ ram = NoRam
    /\ a \in Byte
    /\ x = 0 /\ y = 0 /\ s = \hFD
    /\ p \in {\h24, \h25}
    /\ pc = \h8000
    /\ nmi = FALSE /\ irq = FALSE /\ reset = FALSE
    /\ remaining_pause = 0
    /\ instruction_counter = 0
    /\ oamdma = <<>>
    /\ panicked = FALSE
    /\ last = "new"
    /\ prev = Cur
    /\ flags_raised = 0
    /\ nmi_due = 0
    /\ cartridge = HeaderParked
    /\ apu = apu_new
    /\ apu_ticks = 0
    /\ nrom = nrom_new(cartridge)

\* the addresses the JSR of a call run sits at: the start of the ROM, and
\* two bytes before a page end, where PC + 2 is in the next page
CallSites == {\h8000, \h80FE}

\* a CPU about to fetch JSR $9020, where an RTS waits, for every S; X holds
\* a copy of S, as TSX leaves it, and neither instruction writes X
InitCall ==
    /\ \E site \in CallSites :
          /\ rom = Image(site, <<\h20, \h20, \h90>>)
                   @@ Image(\h9020, <<\h60>>) @@ Vectors
          /\ pc = site
    /\ ram \in RamImages
    /\ a = 0 /\ y = 0
    /\ s \in Byte
    /\ x = s
    /\ p = \h24
    /\ nmi = FALSE /\ irq = FALSE /\ reset = FALSE
    /\ remaining_pause = 0
    /\ instruction_counter = 0
    /\ oamdma = <<>>
    /\ panicked = FALSE
    /\ last = "new"
    /\ prev = Cur
    /\ flags_raised = 0
    /\ nmi_due = 0
    /\ cartridge = HeaderParked
    /\ apu = apu_new
    /\ apu_ticks = 0
    /\ nrom = nrom_new(cartridge)

\* a CPU about to run PHA; PLA, for every S and every A; X and Y keep the
\* values S and A start with
InitStack ==
    /\ rom = Image(\h8000, <<\h48, \h68>>) @@ Vectors
    /\ pc = \h8000
    /\ ram = NoRam
    /\ a \in Byte
    /\ s \in Byte
    /\ x = s /\ y = a
    /\ p = \h24
    /\ nmi = FALSE /\ irq = FALSE /\ reset = FALSE
    /\ remaining_pause = 0
    /\ instruction_counter = 0
    /\ oamdma = <<>>
    /\ panicked = FALSE
    /\ last = "new"
    /\ prev = Cur
    /\ flags_raised = 0
    /\ nmi_due = 0
    /\ cartridge = HeaderParked
    /\ apu = apu_new
    /\ apu_ticks = 0
    /\ nrom = nrom_new(cartridge)

\* the address a run is interrupted at, told by the accumulator it holds
InterruptedAt(acc) == join_bytes(IF acc % 2 = 0 THEN \h80 ELSE \hC0, acc)

\* a CPU in mid-run with one interrupt latched and an RTI at the target of
\* each vector; A tells the PC, X and Y keep the values S and P start with
InitRti ==
    /\ rom = Image(\hC000, <<\h40>>) @@ Vectors
    /\ a \in {\h00, \h01, \hFE, \hFF}
    /\ pc = InterruptedAt(a)
    /\ ram = NoRam
    /\ s \in {\h00, \h01, \h02, \h03, \hFD, \hFF}
    /\ p \in {v \in Byte : BitAnd(v, \h10) = 0}
    /\ x = s /\ y = p
    /\ \E latch \in {"nmi", "irq", "reset"} :
          nmi = (latch = "nmi") /\ irq = (latch = "irq")
          /\ reset = (latch = "reset")
    /\ remaining_pause = 0
    /\ instruction_counter = 0
    /\ oamdma = <<>>
    /\ panicked = FALSE
    /\ last = "new"
    /\ prev = Cur
    /\ flags_raised = 0
    /\ nmi_due = 0
    /\ cartridge = HeaderParked
    /\ apu = apu_new
    /\ apu_ticks = 0
    /\ nrom = nrom_new(cartridge)

\* the host calls tick()
Tick ==
    /\ ~panicked
    /\ TickKind(Cur) = "fetch" => instruction_counter < MaxInstr
    /\ \E n \in {tick(Cur)} :
          /\ a' = n.a /\ x' = n.x /\ y' = n.y
          /\ pc' = n.pc /\ s' = n.s /\ p' = n.p
          /\ nmi' = n.nmi /\ irq' = n.irq /\ reset' = n.reset
          /\ remaining_pause' = n.remaining_pause
          /\ instruction_counter' = n.instruction_counter
          /\ ram' = n.ram
          /\ oamdma' = n.oamdma
          /\ panicked' = n.panicked
    /\ last' = TickKind(Cur)
    /\ prev' = Cur
    /\ nmi_due' = IF nmi_due > 0 THEN nmi_due - 1 ELSE 0
    /\ UNCHANGED <<rom, flags_raised, nrom, cartridge, apu, apu_ticks>>

\* the host calls tick() once, on the instruction the run starts at
TickOnce == instruction_counter = 0 /\ remaining_pause = 0 /\ Tick

\* the host calls flag_nmi()
FlagNmi ==
    /\ ~panicked
    /\ flags_raised < MaxFlags
    /\ nmi' = TRUE
    /\ nmi_due' = remaining_pause + 1
    /\ flags_raised' = flags_raised + 1
    /\ last' = "flag_nmi"
    /\ prev' = Cur
    /\ UNCHANGED <<a, x, y, pc, s, p, irq, reset, remaining_pause,
                   instruction_counter, ram, rom, oamdma, panicked, nrom,
                   cartridge, apu, apu_ticks>>

\* the host calls flag_irq()
FlagIrq ==
    /\ ~panicked
    /\ flags_raised < MaxFlags
    /\ irq' = TRUE
    /\ flags_raised' = flags_raised + 1
    /\ last' = "flag_irq"
    /\ prev' = Cur
    /\ UNCHANGED <<a, x, y, pc, s, p, nmi, reset, remaining_pause,
                   instruction_counter, ram, rom, oamdma, panicked, nrom,
                   cartridge, apu, apu_ticks, nmi_due>>

\* the host calls flag_reset()
FlagReset ==
    /\ ~panicked
    /\ flags_raised < MaxFlags
    /\ reset' = TRUE
    /\ flags_raised' = flags_raised + 1
    /\ last' = "flag_reset"
    /\ prev' = Cur
    /\ UNCHANGED <<a, x, y, pc, s, p, nmi, irq, remaining_pause,
                   instruction_counter, ram, rom, oamdma, panicked, nrom,
                   cartridge, apu, apu_ticks, nmi_due>>

Next == Tick \/ FlagNmi \/ FlagIrq \/ FlagReset

NextOp == Tick

NextAlu == TickOnce

NextCall == Tick

\* the CPU from power-up, under a host that ticks and raises interrupts
Spec == Init /\ [][Next]_vars

\* one instruction (and what follows it) from every opcode byte
SpecOp == InitOp /\ [][NextOp]_vars

\* ADC and SBC on every A, operand and Carry
SpecAlu == InitAlu /\ [][NextAlu]_vars

\* a subroutine call and the return from it, for every S
SpecCall == InitCall /\ [][NextCall]_vars

\* the ticks up to the fetch of a second instruction
TickTwice == instruction_counter < 2 /\ Tick

NextStack == TickTwice

\* a push and the pop that follows it, for every S and every byte
SpecStack == InitStack /\ [][NextStack]_vars

NextRti == TickOnce

\* an interrupt is serviced and its handler returns at once
SpecRti == InitRti /\ [][NextRti]_vars

----------------------------------------------------------------------------
(* The mapper on its own: a cartridge is loaded and the buses call the      *)
(* mapper while the CPU stays as Cpu::new left it.  last is the name of the *)
(* last call and prev holds its arguments and the mapper before it.         *)

cpu_vars ==
    <<a, x, y, pc, s, p, nmi, irq, reset, remaining_pause,
      instruction_counter, ram, rom, oamdma, panicked, flags_raised,
      nmi_due>>

\* the cells written so far
Written(m) ==
    Cardinality(DOMAIN m.chr_rom) + Cardinality(DOMAIN m.internal_vram)
    + (IF m.prg_ram = <<>> THEN 0 ELSE Cardinality(DOMAIN m.prg_ram[1]))

\* a call: its arguments and the mapper it was made on
Call(m, addr, value) == [nrom |-> Ret(m, 0), addr |-> addr, value |-> value]

InitNrom ==
    /\ new(Cart(<<>>, <<>>), TRUE)
    /\ flags_raised = 0
    /\ nmi_due = 0
    /\ cartridge \in Headers
    /\ nrom = nrom_new(cartridge)
    /\ apu = apu_new
    /\ apu_ticks = 0
    /\ last = "nrom_new"
    /\ prev = Call(nrom, 0, 0)

GetCpuSpace ==
    /\ ~nrom.panicked
    /\ \E addr \in CpuProbes :
          /\ nrom' = get_cpu_space(nrom, addr)
          /\ prev' = Call(nrom, addr, 0)
    /\ last' = "get_cpu_space"
    /\ UNCHANGED <<cpu_vars, cartridge, apu, apu_ticks>>

SetCpuSpace ==
    /\ ~nrom.panicked
    /\ Written(nrom) < MaxWrites
    /\ \E addr \in CpuProbes, value \in Values :
          /\ nrom' = set_cpu_space(nrom, addr, value)
          /\ prev' = Call(nrom, addr, value)
    /\ last' = "set_cpu_space"
    /\ UNCHANGED <<cpu_vars, cartridge, apu, apu_ticks>>

GetPpuSpace ==
    /\ ~nrom.panicked
    /\ \E addr \in PpuProbes :
          /\ nrom' = get_ppu_space(nrom, addr)
          /\ prev' = Call(nrom, addr, 0)
    /\ last' = "get_ppu_space"
    /\ UNCHANGED <<cpu_vars, cartridge, apu, apu_ticks>>

SetPpuSpace ==
    /\ ~nrom.panicked
    /\ Written(nrom) < MaxWrites
    /\ \E addr \in PpuProbes, value \in Values :
          /\ nrom' = set_ppu_space(nrom, addr, value)
          /\ prev' = Call(nrom, addr, value)
    /\ last' = "set_ppu_space"
    /\ UNCHANGED <<cpu_vars, cartridge, apu, apu_ticks>>

NextNrom == GetCpuSpace \/ SetCpuSpace \/ GetPpuSpace \/ SetPpuSpace

SpecNrom == InitNrom /\ [][NextNrom]_vars

----------------------------------------------------------------------------
(* The APU on its own: the host ticks it and the CPU's bus writes its       *)
(* registers, at any cycle.  last is the name of the last call and prev is  *)
(* the APU before it.                                                       *)

InitApu ==
    /\ new(Cart(<<>>, <<>>), TRUE)
    /\ flags_raised = 0
    /\ nmi_due = 0
    /\ cartridge = HeaderParked
    /\ nrom = nrom_new(cartridge)
    /\ apu = apu_new
    /\ apu_ticks = 0
    /\ last = "apu_new"
    /\ prev = apu

ApuTick ==
    /\ ~apu.panicked
    /\ apu_ticks < MaxTicks
    /\ \E overflow_checks \in BOOLEAN :
          apu' = apu_tick(apu, overflow_checks)
    /\ apu_ticks' = apu_ticks + 1
    /\ last' = "apu_tick"
    /\ prev' = apu
    /\ UNCHANGED <<cpu_vars, cartridge, nrom>>

ApuSetRegister ==
    /\ ~apu.panicked
    /\ \E w \in RegisterWrites : apu' = apu_set_register(apu, w[1], w[2])
    /\ last' = "apu_set_register"
    /\ prev' = apu
    /\ UNCHANGED <<cpu_vars, cartridge, nrom, apu_ticks>>

\* a tick of the first PassTicks
ApuTickPass == apu_ticks < PassTicks /\ ApuTick

\* a tick of the first EarlyTicks
ApuTickEarly == apu_ticks < EarlyTicks /\ ApuTick

ApuSetChannel ==
    /\ ~apu.panicked
    /\ \E w \in ChannelWrites : apu' = apu_set_register(apu, w[1], w[2])
    /\ last' = "apu_set_register"
    /\ prev' = apu
    /\ UNCHANGED <<cpu_vars, cartridge, nrom, apu_ticks>>

NextApu == ApuTickPass \/ ApuSetRegister

NextChannels == ApuTickEarly \/ ApuSetChannel

NextFrame == ApuTick

\* the sequencer, the mode written at any cycle
SpecApu == InitApu /\ [][NextApu]_vars

\* the channels configured, in any order, around the first ticks
SpecChannels == InitApu /\ [][NextChannels]_vars

\* ticks and nothing else
SpecFrame == InitApu /\ [][NextFrame]_vars


----------------------------------------------------------------------------
(* What the steps are checked against.  prev is the CPU before the last     *)
(* step and last the kind of that step, so a statement about one call of    *)
(* tick() is a statement about prev and the current state.                  *)

\* the last step was a call of tick()
Ticked == last \in {"pause", "nmi", "irq", "reset", "fetch"}

\* the last step was a call of tick() that found no pause left
Ready == Ticked /\ prev.remaining_pause = 0

\* the last step fetched an instruction and ran it to its end
Fetched == last = "fetch" /\ ~panicked

\* the table entry of the instruction the last tick fetched
Opcode == resolve(get(prev, prev.pc))

\* the byte after that opcode
Arg == get(prev, prev.pc + 1)

CarryIn == IF carry(prev) THEN 1 ELSE 0

\* the little-endian word a vector holds
VectorWord(vector) == join_bytes(RomAt(vector + 1), RomAt(vector))

\* the stack cell under stack pointer sp
StackAt(sp) == RamAt(ram, join_bytes(\h01, sp))

\* C1: a tick() taken while remaining_pause > 0 lowers remaining_pause by
\* exactly 1 and changes nothing else: nothing is fetched, no interrupt is
\* serviced, and A, X, Y, PC, S, P, memory, the three latches and the
\* instruction counter are as they were.
C1_PausedTickOnlyCountsDown ==
    (Ticked /\ prev.remaining_pause > 0) =>
        /\ remaining_pause = prev.remaining_pause - 1
        /\ a = prev.a /\ x = prev.x /\ y = prev.y
        /\ pc = prev.pc /\ s = prev.s /\ p = prev.p
        /\ ram = prev.ram /\ oamdma = prev.oamdma
        /\ nmi = prev.nmi /\ irq = prev.irq /\ reset = prev.reset
        /\ instruction_counter = prev.instruction_counter
        /\ ~panicked

\* a paused tick with an NMI waiting: the NMI is still waiting after it
C1_Witness ==
    /\ Ticked /\ prev.remaining_pause = 2 /\ prev.nmi
    /\ remaining_pause = 1 /\ nmi

\* C2: on a tick() with remaining_pause = 0, nmi clear, irq latched and
\* InterruptDisable set, the IRQ is not serviced, the irq latch stays set,
\* and the tick goes on to service RESET if reset is latched and otherwise
\* to fetch and execute the instruction at PC.
C2_MaskedIrqStaysLatched ==
    (Ready /\ ~prev.nmi /\ prev.irq /\ interrupt_disabled(prev)) =>
        /\ irq
        /\ prev.reset =>
              /\ ~reset
              /\ pc = VectorWord(RESET_VECTOR)
              /\ s = Wrap8(prev.s + 253)
        /\ ~prev.reset =>
              instruction_counter = prev.instruction_counter + 1

\* C3: on a tick() with remaining_pause = 0 the interrupts are taken in the
\* order NMI, IRQ, RESET, one per tick: a latched NMI is serviced and leaves
\* the irq and reset latches alone; with nmi clear, a latched IRQ with
\* InterruptDisable clear is serviced and leaves the reset latch alone;
\* RESET is serviced only when neither nmi nor irq is latched; an
\* instruction is fetched only when no latch is set.
C3_InterruptPriority ==
    /\ (Ready /\ prev.nmi) =>
          /\ ~nmi /\ pc = VectorWord(NMI_VECTOR)
          /\ irq = prev.irq /\ reset = prev.reset
          /\ instruction_counter = prev.instruction_counter
    /\ (Ready /\ ~prev.nmi /\ prev.irq /\ ~interrupt_disabled(prev)) =>
          /\ ~irq /\ pc = VectorWord(IRQ_VECTOR)
          /\ reset = prev.reset
          /\ instruction_counter = prev.instruction_counter
    /\ (Ticked /\ prev.reset /\ ~reset) =>
          /\ prev.remaining_pause = 0 /\ ~prev.nmi /\ ~prev.irq
          /\ pc = VectorWord(RESET_VECTOR)
          /\ instruction_counter = prev.instruction_counter
    /\ (Ticked /\ instruction_counter # prev.instruction_counter) =>
          ~prev.nmi /\ ~prev.irq /\ ~prev.reset

\* all three latched at once: the tick took the NMI and left the other two
C3_Witness ==
    /\ Ready /\ prev.nmi /\ prev.irq /\ prev.reset
    /\ ~nmi /\ irq /\ reset /\ pc = VectorWord(NMI_VECTOR)

\* the kinds of interrupt the last tick can have serviced
Serviced(kind) ==
    /\ last = kind
    /\ kind = "irq" => ~interrupt_disabled(prev)

\* C4: servicing NMI, IRQ or RESET writes PC high to 0x0100+S, PC low to
\* 0x0100+((S-1) mod 256) and (P OR 0x30) to 0x0100+((S-2) mod 256), leaves
\* S = (S-3) mod 256, clears that interrupt's latch, and loads PC with the
\* little-endian word at 0xFFFA (NMI), 0xFFFE (IRQ) or 0xFFFC (RESET);
\* A, X, Y and P are not changed.
C4_InterruptServicing ==
    \A kind \in {"nmi", "irq", "reset"} :
        Serviced(kind) =>
            /\ StackAt(prev.s) = prev.pc \div 256
            /\ StackAt(Wrap8(prev.s + 255)) = prev.pc % 256
            /\ StackAt(Wrap8(prev.s + 254)) = BitOr(prev.p, \h30)
            /\ s = Wrap8(prev.s + 253)
            /\ kind = "nmi" => ~nmi /\ pc = VectorWord(\hFFFA)
            /\ kind = "irq" => ~irq /\ pc = VectorWord(\hFFFE)
            /\ kind = "reset" => ~reset /\ pc = VectorWord(\hFFFC)
            /\ a = prev.a /\ x = prev.x /\ y = prev.y /\ p = prev.p
            /\ ~panicked

\* an NMI serviced with S = 0x01: the pushes wrap from 0x0100 to 0x01FF
C4_Witness ==
    /\ Serviced("nmi") /\ prev.s = \h01 /\ s = \hFE
    /\ StackAt(\hFF) = BitOr(prev.p, \h30)

\* C5: for every implemented opcode, when its address resolution crosses no
\* page and a branch is not taken, the tick that fetches it leaves
\* remaining_pause at the table's base cycle count minus 1 (the flag
\* instructions, NOP in every mode, not-taken branches, RTI and LAX
\* included).
C5_PauseIsBaseCyclesLessOne ==
    (/\ Fetched
     /\ Opcode.operation \in Implemented
     /\ ~resolve_addr(prev, Opcode).page_crossed
     /\ Opcode.mode = "Relative" => pc = Wrap16(prev.pc + 2)
     /\ oamdma = prev.oamdma)
    => remaining_pause = Opcode.cycles - 1

\* C6: an instruction that writes a byte to 0x4014 adds 513 to
\* remaining_pause on top of its own cost: after the fetch tick
\* remaining_pause is at least 513.
C6_OamDmaStalls ==
    (Fetched /\ Len(oamdma) > Len(prev.oamdma)) =>
        remaining_pause >= DMA_PAUSE

\* C7: in every reachable state bit 5 of P (0x20), set at power-up, still
\* has its power-up value.
C7_UnusedBitKeepsPowerUpValue == contains(p, \h20)

\* C8: for every A, operand and Carry, SBC sets Overflow exactly when the
\* signed difference A - operand - (1 - C), A and operand read as signed
\* bytes, lies outside -128..127.
C8_SbcOverflow ==
    (Fetched /\ Opcode.operation = "SBC") =>
        overflow(Cur) =
            (AsI8(prev.a) - AsI8(Arg) - (1 - CarryIn) \notin -128..127)

\* C9: for every A, operand and Carry, SBC leaves
\* A = (A - operand - (1 - C)) mod 256, Carry set exactly when
\* A >= operand + (1 - C) as unsigned numbers, Negative = bit 7 of the new A
\* and Zero = (new A = 0).
C9_SbcResult ==
    (Fetched /\ Opcode.operation = "SBC") =>
        /\ a = (prev.a + 512 - Arg - (1 - CarryIn)) % 256
        /\ carry(Cur) = (prev.a >= Arg + (1 - CarryIn))
        /\ negative(Cur) = (a >= 128)
        /\ zero(Cur) = (a = 0)

\* SBC #$01 with A = 0x00 and Carry set: A = 0xFF, N set, Z and C clear
C9_Witness ==
    /\ Fetched /\ Opcode.operation = "SBC"
    /\ prev.a = \h00 /\ Arg = \h01 /\ carry(prev)
    /\ a = \hFF /\ negative(Cur) /\ ~zero(Cur) /\ ~carry(Cur)

\* C10: for every A, operand and Carry, ADC leaves A = (A + operand + C) mod
\* 256, Carry = (A + operand + C > 255), Overflow = (the signed sum of A,
\* operand and C lies outside -128..127), Negative = bit 7 of the new A and
\* Zero = (new A = 0).
C10_AdcResult ==
    (Fetched /\ Opcode.operation = "ADC") =>
        /\ a = (prev.a + Arg + CarryIn) % 256
        /\ carry(Cur) = (prev.a + Arg + CarryIn > 255)
        /\ overflow(Cur) =
              (AsI8(prev.a) + AsI8(Arg) + CarryIn \notin -128..127)
        /\ negative(Cur) = (a >= 128)
        /\ zero(Cur) = (a = 0)

\* ADC #$50 with A = 0x50 and Carry clear: A = 0xA0, N and V set
C10_Witness ==
    /\ Fetched /\ Opcode.operation = "ADC"
    /\ prev.a = \h50 /\ Arg = \h50 /\ ~carry(prev)
    /\ a = \hA0 /\ negative(Cur) /\ overflow(Cur) /\ ~zero(Cur)
    /\ ~carry(Cur)

\* the address the JSR of a call run was fetched at
CallSite == CHOOSE site \in CallSites : RomAt(site) = \h20

\* C11: JSR at address PC pushes the high then the low byte of PC + 2 and
\* jumps to its absolute target; the RTS executed with the stack pointer JSR
\* left pops that address and continues at PC + 3, with S back at its value
\* before the JSR, for every starting S (wrapping pushes included).
C11_JsrRtsRoundTrip ==
    /\ (Fetched /\ Opcode.operation = "JSR") =>
          /\ StackAt(prev.s) = Wrap16(prev.pc + 2) \div 256
          /\ StackAt(Wrap8(prev.s + 255)) = Wrap16(prev.pc + 2) % 256
          /\ pc = join_bytes(get(prev, prev.pc + 2), Arg)
          /\ s = Wrap8(prev.s + 254)
    /\ (Fetched /\ Opcode.operation = "RTS" /\ instruction_counter = 2) =>
          /\ prev.s = Wrap8(x + 254)
          /\ pc = CallSite + 3
          /\ s = x

\* the return from a call made with S = 0x00: the pushes went to 0x0100 and
\* 0x01FF, and the return address lies in the page after the JSR's
C11_Witness ==
    /\ Fetched /\ Opcode.operation = "RTS" /\ instruction_counter = 2
    /\ x = \h00 /\ prev.s = \hFE /\ s = \h00
    /\ CallSite = \h80FE /\ pc = \h8101
    /\ StackAt(\h00) = \h81 /\ StackAt(\hFF) = \h00

\* C12: JMP (Indirect) through a pointer reads the target's low byte at the
\* pointer and its high byte at pointer + 1, except that a pointer whose low
\* byte is 0xFF has the high byte read at (pointer AND 0xFF00); PC becomes
\* exactly that target and is not advanced further.
C12_JmpIndirect ==
    (Fetched /\ Opcode.operation = "JMP" /\ Opcode.mode = "Indirect") =>
        LET ptr == join_bytes(get(prev, prev.pc + 2), Arg)
            high_at == IF ptr % 256 = 255 THEN (ptr \div 256) * 256
                       ELSE ptr + 1
        IN  pc = join_bytes(get(prev, high_at), get(prev, ptr))

\* JMP ($02FF) with 0x02FF = 0xAA, 0x0200 = 0xBB, 0x0300 = 0xCC
C12_Witness ==
    /\ Fetched /\ Opcode.operation = "JMP" /\ Opcode.mode = "Indirect"
    /\ Arg = \hFF /\ get(prev, prev.pc + 2) = \h02
    /\ get(prev, \h02FF) = \hAA /\ get(prev, \h0200) = \hBB
    /\ get(prev, \h0300) = \hCC
    /\ pc = \hBBAA

\* C13: BRK with InterruptDisable clear pushes the high and the low byte of
\* (address of BRK + 1) and then (P OR 0x30), sets PC to the little-endian
\* word at 0xFFFE and leaves remaining_pause = 6; BRK with InterruptDisable
\* set only advances PC by 1: S, P, A, X, Y, memory and remaining_pause are
\* unchanged.
C13_Brk ==
    (Fetched /\ Opcode.operation = "BRK") =>
        IF interrupt_disabled(prev)
        THEN /\ pc = Wrap16(prev.pc + 1)
             /\ s = prev.s /\ p = prev.p
             /\ a = prev.a /\ x = prev.x /\ y = prev.y
             /\ ram = prev.ram /\ oamdma = prev.oamdma
             /\ remaining_pause = prev.remaining_pause
        ELSE /\ StackAt(prev.s) = Wrap16(prev.pc + 1) \div 256
             /\ StackAt(Wrap8(prev.s + 255)) = Wrap16(prev.pc + 1) % 256
             /\ StackAt(Wrap8(prev.s + 254)) = BitOr(prev.p, \h30)
             /\ s = Wrap8(prev.s + 253)
             /\ pc = VectorWord(\hFFFE)
             /\ remaining_pause = 6

\* a BRK that InterruptDisable turned into a one-byte step
C13_Witness ==
    /\ Fetched /\ Opcode.operation = "BRK" /\ interrupt_disabled(prev)
    /\ pc = \h8001 /\ s = prev.s /\ remaining_pause = 0

\* C14: a CPU created with test_mode = false has, before any tick,
\* A = X = Y = 0, S = 0xFD, P = BREAK | InterruptDisable, the three latches
\* clear, remaining_pause = 0 and PC = the little-endian word at
\* 0xFFFC/0xFFFD; with test_mode = true the state is the same except that
\* PC = 0x8000.
C14_PowerUpState ==
    last \in {"new", "new_test_mode"} =>
        /\ a = 0 /\ x = 0 /\ y = 0
        /\ s = \hFD
        /\ p = \h20 + \h04
        /\ ~nmi /\ ~irq /\ ~reset
        /\ remaining_pause = 0
        /\ last = "new" => pc = join_bytes(RomAt(\hFFFD), RomAt(\hFFFC))
        /\ last = "new_test_mode" => pc = \h8000

\* a CPU created with test_mode = false on a cartridge whose RESET vector
\* holds 0xC000
C14_Witness ==
    /\ last = "new" /\ RomAt(\hFFFC) = \h00 /\ RomAt(\hFFFD) = \hC0
    /\ pc = \hC000 /\ s = \hFD /\ p = \h24

----------------------------------------------------------------------------
(* Claims about the mapper.                                                 *)

\* the last call was op, at an address of the PRG-RAM window
PrgRamCall(op) ==
    last = op /\ prev.addr >= \h6000 /\ prev.addr <= \h7FFF

\* flags byte 6 of the loaded cartridge has bit 2 (PRG-RAM present) set
PrgRamBit == BitAnd(cartridge[7], \h04) # 0

\* C15: on a cartridge whose flags byte 6 has bit 2 set, set_cpu_space(a, v)
\* at a PRG-RAM address succeeds and get_cpu_space(a) then returns v; with
\* bit 2 clear, set_cpu_space and get_cpu_space on that range both fail
C15_PrgRamFollowsHeaderBit ==
    /\ PrgRamCall("set_cpu_space") =>
          IF PrgRamBit
          THEN /\ ~nrom.panicked
               /\ get_cpu_space(nrom, prev.addr) = Ret(nrom, prev.value)
          ELSE nrom.panicked
    /\ PrgRamCall("get_cpu_space") =>
          (nrom.panicked <=> ~PrgRamBit)

\* offsets into PRG-ROM: both ends of each 16 KiB half and every 0x0111-th
\* byte in between
RomOffsets ==
    {0, \h3FFF, \h4000, \h7FFF} \cup {\h0111 * i : i \in 0..119}

\* a read of the CPU bus answers with the byte PRG-ROM was loaded with at k
ReadsRom(addr, k) == get_cpu_space(nrom, addr) = Ret(nrom, RomSection(k))

\* C16: whatever mapper calls were made, a 32 KiB NROM reads prg_rom[k] at
\* 0x8000 + k for k in 0..0x8000, a 16 KiB NROM reads prg_rom[k] at both
\* 0x8000 + k and 0xC000 + k for k in 0..0x4000, and a set_cpu_space outside
\* 0x6000-0x7FFF fails and leaves PRG-ROM as it was
C16_PrgRomMirrorsAndIsReadOnly ==
    /\ ~nrom.panicked =>
          \A k \in RomOffsets :
              IF nrom.rom_size = "ThirtyTwo"
              THEN ReadsRom(\h8000 + k, k)
              ELSE k < \h4000 =>
                      ReadsRom(\h8000 + k, k) /\ ReadsRom(\hC000 + k, k)
    /\ (last = "set_cpu_space" /\ ~PrgRamCall("set_cpu_space")) =>
          nrom.panicked /\ nrom.prg_rom = prev.nrom.prg_rom

\* a 16 KiB NROM that was written to through the PPU bus and has just been
\* read at 0xC000
C16_Witness ==
    /\ nrom.rom_size = "Sixteen" /\ ~nrom.panicked
    /\ last = "get_cpu_space" /\ prev.addr = \hC000
    /\ nrom.ret = RomSection(0)
    /\ Written(nrom) = MaxWrites

\* C17: in every mapper state reached by set_ppu_space writes, under either
\* mirroring, get_ppu_space(0x3000 + k) equals get_ppu_space(0x2000 + k) for
\* every k in 0..0x0F00
C17_ShadowReadsNametables ==
    ~nrom.panicked =>
        \A k \in 0..\h0EFF :
            /\ ~get_ppu_space(nrom, \h2000 + k).panicked
            /\ get_ppu_space(nrom, \h3000 + k) = get_ppu_space(nrom, \h2000 + k)

\* the address of the same offset in the slot that mirroring pairs with the
\* slot of addr: (0,1) and (2,3) when horizontal, (0,2) and (1,3) when vertical
Partner(m, addr) ==
    BitXor(addr, IF m.nametable_mirror = "Horizontal" THEN \h0400 ELSE \h0800)

\* the address of the same offset in a slot of the other pair
Stranger(m, addr) ==
    BitXor(addr, IF m.nametable_mirror = "Horizontal" THEN \h0800 ELSE \h0400)

\* C18: for every a in 0x2000-0x2FFF the index the mapper computes is a
\* valid index into the 4 KiB internal VRAM; a write through a nametable
\* slot is read back at the same offset of the slot paired with it and
\* leaves what is read through the slots of the other pair unchanged
C18_NametableSlotsAliasInPairs ==
    /\ \A addr \in \h2000..\h2FFF : in_vram(mirrored_addr(nrom, addr))
    /\ (last = "set_ppu_space" /\ prev.addr >= \h2000 /\ prev.addr <= \h2FFF) =>
          /\ ~nrom.panicked
          /\ get_ppu_space(nrom, prev.addr) = Ret(nrom, prev.value)
          /\ get_ppu_space(nrom, Partner(nrom, prev.addr))
                = Ret(nrom, prev.value)
          /\ \A o \in {Stranger(nrom, prev.addr),
                        Partner(nrom, Stranger(nrom, prev.addr))} :
                get_ppu_space(nrom, o).ret = get_ppu_space(prev.nrom, o).ret

----------------------------------------------------------------------------
(* Claims about the APU.                                                    *)

\* the last call was a tick that processed the given cycle
Processed(cycle) == last = "apu_tick" /\ prev.cycle = cycle

\* the mode the sequencer was in during the last call
FiveStep == contains(prev.frame_counter, FIVE_STEP)

\* the last call was the tick of the terminal step of the sequence
TerminalStep ==
    \/ Processed(29829) /\ ~FiveStep
    \/ Processed(37281) /\ FiveStep

\* C19: after the tick that processes the terminal step of the sequence
\* (cycle 29829 in four-step mode, 37281 in five-step mode) the cycle
\* counter is 0, so that the next tick processes cycle 0
C19_TerminalStepResetsCycle == TerminalStep => apu.cycle = 0

\* the calls the last tick made on the envelope generator and on the length
\* counter of each pulse channel
Clocked(envelopes, lengths) ==
    /\ apu.pulse1.envelope_ticks = envelopes
    /\ apu.pulse2.envelope_ticks = envelopes
    /\ apu.pulse1.length_ticks = lengths
    /\ apu.pulse2.length_ticks = lengths

\* C20 as stated: in five-step mode the ticks that process cycles 7457,
\* 14913, 22371, 29829 and 37281 each advance the envelope generators of both
\* pulse channels, and those of 14913 and 37281 advance the length counters
C20_FiveStepClocksEveryStep ==
    FiveStep =>
        /\ Processed(7457) => Clocked(1, 0)
        /\ Processed(14913) => Clocked(1, 1)
        /\ Processed(22371) => Clocked(1, 0)
        /\ Processed(29829) => Clocked(1, 0)
        /\ Processed(37281) => Clocked(1, 1)

\* C20 as amended: in five-step mode the ticks that process cycles 7457,
\* 14913, 22371 and 37281 each advance the envelope generators of both pulse
\* channels, those of 14913 and 37281 advance the length counters, and the
\* tick that processes cycle 29829 advances neither
C20_FiveStepSkipsFourthStep ==
    FiveStep =>
        /\ Processed(7457) => Clocked(1, 0)
        /\ Processed(14913) => Clocked(1, 1)
        /\ Processed(22371) => Clocked(1, 0)
        /\ Processed(29829) => Clocked(0, 0)
        /\ Processed(37281) => Clocked(1, 1)

\* the tick of cycle 37281 in five-step mode has clocked the channels and
\* ended the pass
C20_Witness ==
    FiveStep /\ Processed(37281) /\ Clocked(1, 1) /\ apu.cycle = 1

\* C21: in four-step mode the ticks that process cycles 7457, 14913, 22371
\* and 29829 each advance the envelope generators of both pulse channels
\* once, those of 14913 and 29829 also advance the length counters once, and
\* no other tick advances either; a pass meets each of the four cycles once
C21_FourStepClocksFourSteps ==
    (last = "apu_tick" /\ ~FiveStep) =>
        CASE prev.cycle \in {7457, 22371} -> Clocked(1, 0)
          [] prev.cycle \in {14913, 29829} -> Clocked(1, 1)
          [] OTHER -> Clocked(0, 0) /\ apu.cycle = prev.cycle + 1

\* the tick of cycle 29829 in four-step mode has clocked envelopes and
\* length counters
C21_Witness == ~FiveStep /\ Processed(29829) /\ Clocked(1, 1)

\* the enable bit of a channel is clear
Disabled(channel) == ~contains(apu.enabled, channel)

\* C22: in every APU state a pulse channel whose enable bit is clear has
\* length counter 0, also after a write to its length-load register
C22_DisabledChannelHasNoLength ==
    /\ Disabled(PULSE_1) => apu.pulse1.length = 0
    /\ Disabled(PULSE_2) => apu.pulse2.length = 0

\* C23: every sample pushed while a pulse channel's enable bit is clear has
\* no contribution from that channel, and a sample pushed while both are
\* clear is 0
C23_DisabledChannelIsSilent ==
    (last = "apu_tick" /\ apu.pushed # <<>>) =>
        /\ Disabled(PULSE_1) => apu.pushed[1].pulse_1 = 0
        /\ Disabled(PULSE_2) => apu.pushed[1].pulse_2 = 0
        /\ (Disabled(PULSE_1) /\ Disabled(PULSE_2)) => apu.pushed[1].value = 0

\* a sample pushed while the first channel is disabled but has a volume and
\* a loaded length counter, the second channel sounding
C23_Witness ==
    /\ last = "apu_tick" /\ apu.pushed # <<>>
    /\ Disabled(PULSE_1) /\ apu.pulse1.length > 0 /\ apu.pulse1.volume > 0
    /\ ~Disabled(PULSE_2) /\ apu.pushed[1].pulse_2 > 0

\* C24 as stated: a freshly created APU that was ticked 2 x CLOCKS_PER_FRAME
\* times, its buffer never drained, holds between 734 and 736 samples
C24_SamplesAfterTwiceTheClocks ==
    apu_ticks = 2 * CLOCKS_PER_FRAME =>
        apu.samples >= SAMPLES_PER_FRAME - 1 /\ apu.samples <= SAMPLES_PER_FRAME + 1

\* C24 as amended: a freshly created APU that was ticked CLOCKS_PER_FRAME
\* times, its buffer never drained, holds between 734 and 736 samples
C24_SamplesAfterOneFrame ==
    apu_ticks = CLOCKS_PER_FRAME =>
        apu.samples >= SAMPLES_PER_FRAME - 1 /\ apu.samples <= SAMPLES_PER_FRAME + 1

\* the APU after the ticks of one frame, holding a frame's samples
C24_Witness ==
    last = "apu_tick" /\ apu_ticks = CLOCKS_PER_FRAME
    /\ apu.samples = SAMPLES_PER_FRAME

----------------------------------------------------------------------------
(* Claims about instructions.                                               *)

\* the operations the table names and execute_opcode has no arm for
Unimplemented ==
    {"KIL", "AXS", "LAS", "AHX", "XAA", "SHX", "TAS", "SHY", "ARR", "ALR",
     "ANC"}

\* C25: a tick that fetches an opcode whose operation is not implemented
\* does not abort: the CPU stays in a well-defined state and takes further
\* ticks
C25_UnimplementedOpcodeDoesNotAbort ==
    (last = "fetch" /\ Opcode.operation \in Unimplemented) => ~panicked

\* the address the zero-page pointer of an IndirectY instruction holds
PointerBase == join_bytes(get(prev, Wrap8(Arg + 1)), get(prev, Arg))

\* adding Y to that address changes its high byte
YCrossesPage ==
    (PointerBase \div 256) # (Wrap16(PointerBase + prev.y) \div 256)

\* the same fetch with Y = 0, where the addition changes nothing
WithoutY == fetch_and_execute([prev EXCEPT !.y = 0])

\* C26: an IndirectY opcode whose table entry has the page-cross flag leaves
\* remaining_pause 1 higher when adding Y to the pointer's address changes
\* the high byte than it leaves when the addition does not
C26_IndirectYPageCrossPenalty ==
    (Fetched /\ Opcode.mode = "IndirectY" /\ Opcode.cross
       /\ Opcode.operation \in Implemented) =>
        LET same(w) ==
                ~w.panicked =>
                    remaining_pause
                      = w.remaining_pause + (IF YCrossesPage THEN 1 ELSE 0)
        IN  same(WithoutY)

Branches == {"BCS", "BCC", "BEQ", "BNE", "BVS", "BVC", "BMI", "BPL"}

\* the condition of the branch the last tick fetched, on the flags it found
BranchTaken ==
    CASE Opcode.operation = "BCS" -> carry(prev)
      [] Opcode.operation = "BCC" -> ~carry(prev)
      [] Opcode.operation = "BEQ" -> zero(prev)
      [] Opcode.operation = "BNE" -> ~zero(prev)
      [] Opcode.operation = "BVS" -> overflow(prev)
      [] Opcode.operation = "BVC" -> ~overflow(prev)
      [] Opcode.operation = "BMI" -> negative(prev)
      [] Opcode.operation = "BPL" -> ~negative(prev)

\* the address a taken branch goes to
BranchTarget == Wrap16(prev.pc + 2 + SignExtend16(Arg))

\* the pause the same branch leaves when it is not taken
NotTakenPause == branch_op(prev, Opcode, FALSE).remaining_pause

\* C27: a branch not taken advances PC by 2; a branch taken leaves PC at the
\* address of the branch + 2 + the sign-extended operand, and remaining_pause
\* 1 higher than the same branch not taken, or 3 higher when that target is
\* on another 256-byte page than the branch
C27_BranchPenalties ==
    (Fetched /\ Opcode.operation \in Branches) =>
        IF BranchTaken
        THEN /\ pc = BranchTarget
             /\ remaining_pause
                  = NotTakenPause
                    + (IF BranchTarget \div 256 # prev.pc \div 256 THEN 3 ELSE 1)
        ELSE /\ pc = Wrap16(prev.pc + 2)
             /\ remaining_pause = NotTakenPause

\* C28: for every S and every byte v, PHA stores v at 0x0100 + S, touches no
\* other cell and leaves S one lower modulo 256; the PLA that follows returns
\* v to A and leaves S as it was before the push
C28_PushPopRoundTrip ==
    /\ (Fetched /\ instruction_counter = 1) =>
          /\ s = (x + 255) % 256
          /\ DOMAIN ram = {\h0100 + x}
          /\ ram[\h0100 + x] = y
          /\ a = y
    /\ (Fetched /\ instruction_counter = 2) =>
          /\ a = y
          /\ s = x
          /\ DOMAIN ram = {\h0100 + x}

\* PLA has returned 0x80 after a push made at S = 0x00, which wrapped S
C28_Witness ==
    /\ Fetched /\ instruction_counter = 2
    /\ x = \h00 /\ prev.s = \hFF /\ s = \h00 /\ a = \h80

\* the operations that write A, X or Y and set the value flags from it
WritesA == {"LDA", "LAX", "TXA", "TYA", "PLA", "AND", "ORA", "EOR"}
WritesX == {"LDX", "TAX", "TSX", "INX", "DEX"}
WritesY == {"LDY", "TAY", "INY", "DEY"}

\* Negative is bit 7 of the value and Zero tells whether it is 0
ValueFlags(value) ==
    /\ (BitAnd(p, NEGATIVE) # 0) = (value >= 128)
    /\ (BitAnd(p, ZERO) # 0) = (value = 0)

\* C29: after an instruction that writes A, X or Y through an operation that
\* sets the value flags, Negative is bit 7 of the register written and Zero
\* tells whether it is 0; TXS copies X to S and changes no flag
C29_ValueFlagsFollowRegister ==
    Fetched =>
        /\ Opcode.operation \in WritesA => ValueFlags(a)
        /\ Opcode.operation \in WritesX => ValueFlags(x)
        /\ Opcode.operation \in WritesY => ValueFlags(y)
        /\ Opcode.operation = "TXS" => (s = prev.x /\ p = prev.p)

\* LDA has loaded 0x80 into A and raised Negative, which was clear
C29_Witness ==
    /\ Fetched /\ Opcode.operation = "LDA"
    /\ a = \h80 /\ BitAnd(p, NEGATIVE) # 0 /\ BitAnd(prev.p, NEGATIVE) = 0

\* the unofficial read-modify-write operations
IllegalOps == {"DCP", "ISC", "SLO", "SRE", "RRA", "RLA"}

\* the official operation an unofficial opcode runs first, a read-modify-write
FirstOfficial(c, op) ==
    CASE op.operation = "DCP" -> dec(c, op)
      [] op.operation = "ISC" -> inc(c, op)
      [] op.operation = "SLO" -> asl(c, op)
      [] op.operation = "SRE" -> lsr(c, op)
      [] op.operation = "RRA" -> ror(c, op)
      [] op.operation = "RLA" -> rol(c, op)

\* the official operation it runs second, which reads the operand into the
\* accumulator or the flags
SecondOfficial(c, op) ==
    CASE op.operation = "DCP" -> compare_op(c, op, c.a)
      [] op.operation = "ISC" -> sbc(c, op)
      [] op.operation = "SLO" -> ora(c, op)
      [] op.operation = "SRE" -> eor(c, op)
      [] op.operation = "RRA" -> adc(c, op)
      [] op.operation = "RLA" -> and(c, op)

\* the CPU c with the operand of op at hand as the byte value: the indirect
\* modes, whose pointer lies in RAM, get a pointer to a cell holding value
WithOperand(c, op, value) ==
    LET pointed(z, index) ==
            [c EXCEPT !.ram = (z :> \h00) @@ (Wrap8(z + 1) :> \h03)
                              @@ ((\h0300 + index) :> value)]
    IN  CASE op.mode = "IndirectX" -> pointed(Wrap8(next_byte(c) + c.x), 0)
          [] op.mode = "IndirectY" -> pointed(next_byte(c), c.y)
          [] OTHER -> c

\* the second official operation run on the address the first one resolved:
\* its operand is the byte that address holds after the first one
OnSameAddress(first, op) ==
    SecondOfficial(
        WithOperand(first, op, get(first, resolve_addr(prev, op).addr)), op)

\* C30: DCP, ISC, SLO, SRE, RRA and RLA leave A, X, Y, S, P and memory as
\* their two official operations, run one after the other on the same
\* resolved address, leave them; PC advances by the mode's byte count once
\* and remaining_pause is the table's cycles less one
C30_IllegalOpsAreTwoOfficialOps ==
    (Fetched /\ Opcode.operation \in IllegalOps) =>
        LET agree(first, second) ==
                /\ a = second.a /\ p = second.p
                /\ x = prev.x /\ y = prev.y /\ s = prev.s
                /\ ram = first.ram
            after(first) == agree(first, OnSameAddress(first, Opcode))
        IN  /\ after(FirstOfficial(prev, Opcode))
            /\ pc = Wrap16(prev.pc + byte_count(Opcode.mode))
            /\ remaining_pause = Opcode.cycles - 1

----------------------------------------------------------------------------
(* Claims about the opcode table, the frame counter and interrupts.         *)

\* the operations whose handler writes a byte to the resolved address
WritesOperand ==
    {"STA", "STX", "STY", "SAX", "ASL", "LSR", "ROL", "ROR", "INC", "DEC",
     "DCP", "ISC", "SLO", "SRE", "RRA", "RLA"}

\* the fetched instruction reads or writes where the bus panics, so that the
\* tick is ended by the mapper or the DMA and not by its handler
MemoryFault ==
    \/ get_panics(prev.pc)
    \/ operand_get_panics(prev, Opcode)
    \/ /\ Opcode.operation \in WritesOperand
       /\ Opcode.mode # "Accumulator"
       /\ \/ resolve_addr(prev, Opcode).addr >= \h4020
          \/ resolve_addr(prev, Opcode).addr = \h4014

\* C31: no opcode whose operation is implemented drives its handler into a
\* branch marked unreachable: a tick that fetches one and meets no memory
\* fault does not panic
C31_NoImplementedOpcodeIsUnreachable ==
    (last = "fetch" /\ Opcode.operation \in Implemented /\ ~MemoryFault)
    => ~panicked

\* C32: however ticks and writes to 0x4017 interleave, the cycle counter
\* never exceeds 37281, the last terminal step
C32_CycleNeverPassesLastStep == apu.cycle <= 37281

\* the last tick clocked the timers of both pulse channels
TimersClocked == apu.pulse1.timer_ticks = 1 /\ apu.pulse2.timer_ticks = 1

\* the tick before the last one clocked the timers of both pulse channels
TimersClockedBefore == prev.pulse1.timer_ticks = 1 /\ prev.pulse2.timer_ticks = 1

\* C33: a tick checks sample_step exactly when it has clocked the pulse
\* timers, which it does exactly when the cycle it processes is even; the
\* tick of an odd terminal step does neither, and of two ticks in a row
\* exactly one clocks the timers, also across the reset of the counter
C33_SampleCheckFollowsTimers ==
    last = "apu_tick" =>
        /\ TimersClocked <=> (prev.cycle % 2 = 0)
        /\ (apu.sample_checks = 1) <=> TimersClocked
        /\ TerminalStep => (apu.sample_checks = 0 /\ ~TimersClocked)
        /\ apu_ticks >= 2 => (TimersClocked <=> ~TimersClockedBefore)

\* Carry, Zero, InterruptDisable, Decimal, Overflow and Negative
SixFlags == \hCF

\* the last tick ran the RTI of an interrupt handler, with S as the
\* servicing left it
Returned ==
    /\ Fetched /\ Opcode.operation = "RTI"
    /\ prev.pc \in {\h9000, \h9010, \hC000}
    /\ prev.s = Wrap8(x + 253)

\* C34: an RTI run with S as the servicing of an NMI, an IRQ or a RESET
\* left it restores PC to the address the interrupt was taken at, restores
\* S, and restores Carry, Zero, InterruptDisable, Decimal, Overflow and
\* Negative
C34_RtiUndoesInterrupt ==
    Returned =>
        /\ pc = InterruptedAt(a)
        /\ s = x
        /\ BitAnd(p, SixFlags) = BitAnd(y, SixFlags)

\* the handler of a RESET taken at 0xC0FF with S = 0x01 has returned: the
\* three bytes were pushed across the wrap of S
C34_Witness ==
    /\ Returned /\ prev.pc = \hC000
    /\ x = \h01 /\ prev.s = \hFE /\ s = \h01
    /\ pc = \hC0FF /\ BitAnd(p, SixFlags) = \hC3

\* C35: an NMI latched by flag_nmi() while remaining_pause = n is serviced
\* on exactly the (n+1)-th tick that follows, whatever the irq and reset
\* latches and InterruptDisable are: until then every tick only counts the
\* pause down, no instruction is fetched and no other interrupt is serviced,
\* and the latch stays set until the NMI is serviced
C35_NmiServicedAfterPause ==
    /\ nmi => nmi_due >= 1
    /\ (Ticked /\ prev.nmi) =>
          /\ last \in {"pause", "nmi"}
          /\ (last = "nmi") <=> (nmi_due = 0)
          /\ last = "nmi" => (~nmi /\ pc = VectorWord(NMI_VECTOR))
          /\ last = "pause" => nmi
          /\ instruction_counter = prev.instruction_counter
    /\ (last \in {"flag_irq", "flag_reset"} /\ prev.nmi) => nmi

\* the NMI is serviced on the tick it was due at, with IRQ and RESET latched
\* as well and InterruptDisable clear
C35_Witness ==
    /\ last = "nmi" /\ nmi_due = 0 /\ ~nmi
    /\ irq /\ reset /\ ~interrupt_disabled(prev)
    /\ pc = VectorWord(NMI_VECTOR)

============================================================================
